---- MODULE Spec2Model ----
(***************************************************************************)
(* A model of the Cashu mint ledger (callebtc/cashu): the persistence      *)
(* layer (cashu/mint/crud.py over cashu/core/db.py and the tables of       *)
(* cashu/mint/migrations.py), the verification core                        *)
(* (cashu/mint/verification.py), the Lightning helpers                     *)
(* (cashu/mint/lightning.py) and the Lightning backends                    *)
(* (cashu/lightning/corelightningrest.py, cashu/lightning/blink.py).       *)
(*                                                                         *)
(* The request handlers swap, mint and melt of cashu/mint/ledger.py are    *)
(* not part of the source tree; they are modelled from the specification   *)
(* (spec.md section 4.6) as sequences of the statements above, one         *)
(* database transaction per handler phase.  Every statement of a handler   *)
(* is an await, so the handlers of different workers interleave between    *)
(* statements.                                                             *)
(*                                                                         *)
(* Database semantics: a transaction's writes are private until it         *)
(* commits; an INSERT that violates a UNIQUE constraint against a          *)
(* committed row (or a row of its own transaction) raises; an INSERT       *)
(* whose key was inserted by another open transaction waits for that       *)
(* transaction to end; an exception rolls the transaction back             *)
(* (Database.connect).                                                     *)
(***************************************************************************)
EXTENDS Integers, Sequences, FiniteSets, TLC

\* ------------------------------------------------------------------ bounds

\* Lock attempts acquire_lock makes before its time window is over.
MaxLockTries == 1
\* settings.max_order as configured for the model: denominations 1 .. 64.
max_order == 7
\* The largest fee reserve of a melt for which blank outputs are counted.
MaxFeeReserve == 9
\* The largest number of leaves of a secret-commitment tree.
MaxLeafs == 3

\* --------------------------------------------------------------- universes

Workers == {"w1", "w2"}
Secrets == {"s1", "s2"}
B_s == {"b1", "b2", "b3"}
None == "None"
\* Optional[bool] values of the backends' responses (None: "None")
True == "True"
False == "False"

\* keysets of the mint: Dict[str, MintKeyset]
keysets ==
    [k1 |-> [unit |-> "sat", active |-> TRUE, input_fee_ppk |-> 0],
     k2 |-> [unit |-> "usd", active |-> TRUE, input_fee_ppk |-> 0],
     k3 |-> [unit |-> "sat", active |-> FALSE, input_fee_ppk |-> 0],
     k4 |-> [unit |-> "sat", active |-> TRUE, input_fee_ppk |-> 500]]

Proof(s, a) == [id |-> "k1", amount |-> a, secret |-> s]
BlindedMessage(b, a) == [id |-> "k1", amount |-> a, B_ |-> b]

\* DLEQ proof and BlindedSignature (dleq: <<>> for None, <<d>> for a proof d)
DLEQ(e, s) == [e |-> e, s |-> s]
BlindedSignature(id, amount, C_, dleq) ==
    [id |-> id, amount |-> amount, C_ |-> C_, dleq |-> dleq]

\* The curve group of the model: the points are the residues modulo a prime
\* curve_order, 0 the point at infinity, G the generator; a private key is a
\* scalar 1 .. curve_order - 1.
curve_order == 7
G == 1
Infinity == 0
Points == 1..(curve_order - 1)
PrivateKeys == 1..(curve_order - 1)
\* PublicKey.mult(k): k * P
mult(P, k) == (P * k) % curve_order
\* PublicKey.__neg__
neg(P) == (curve_order - P) % curve_order
\* PublicKey.__add__ (combine): the sum; no PublicKey holds the point at
\* infinity, combine raises when the sum is Infinity
point_add(P, Q) == (P + Q) % curve_order
\* PublicKey.__sub__: P + (-Q)
point_sub(P, Q) == point_add(P, neg(Q))
\* PrivateKey.pubkey: k * G
pubkey(k) == mult(G, k)

\* PublicKey(bytes.fromhex(B_), raw=True): the point of a serialized key
PublicKey(hex) ==
    CASE hex = "b1" -> 2
      [] hex = "b2" -> 3
      [] hex = "b3" -> 4
      [] OTHER -> 5

\* the private key of keyset id for an amount (derived from the seed)
private_key(id, amount) ==
    LET k == CASE id = "k1" -> 1 [] id = "k2" -> 2 [] id = "k3" -> 3
               [] id = "k4" -> 4 [] OTHER -> 5
    IN 1 + ((3 * k + amount) % (curve_order - 1))

\* (variant: the blinded message is returned as its own signature)
step2_bob_identity(B_, a) == B_

\* C_ = a * B_
step2_bob(B_, a) == mult(B_, a)
\* the DLEQ proof (e, s) the mint makes for its signature
step2_bob_dleq(B_, a) == DLEQ(<<"e", B_, a>>, <<"s", B_, a>>)

\* the signature the mint makes on an output, as returned by the request
\* that has it signed
_generate_promise(id, amount, B_) ==
    LET a == private_key(id, amount)
    IN BlindedSignature(id, amount, step2_bob(PublicKey(B_), a),
                        <<step2_bob_dleq(B_, a)>>)

\* The two proofs the users hold: 64 + 2 = 66.
p1 == Proof("s1", 64)
p2 == Proof("s2", 2)

RECURSIVE SumAmounts(_)
SumAmounts(seq) ==
    IF seq = <<>> THEN 0 ELSE Head(seq).amount + SumAmounts(Tail(seq))

Range(seq) == {seq[i] : i \in 1..Len(seq)}

SecretsOf(proofs) == {proofs[i].secret : i \in 1..Len(proofs)}

\* The mint quote (invoice) and the melt quote of the model.
MintQuoteId == "q1"
MeltQuoteId == "mq1"
QuoteIds == {MintQuoteId, MeltQuoteId}
\* the payment hash of an invoice of another node
ExternalInvoice == "ext"

Request(k, q, ins, outs) ==
    [kind |-> k, quote |-> q, inputs |-> ins, outputs |-> outs]

\* The requests the clients send. Outputs b1, b2 are offered to swap and mint,
\* the blank output b3 to melt.
SwapRequests ==
    { Request("swap", None, <<p1, p2>>,
              <<BlindedMessage("b1", 64), BlindedMessage("b2", 2)>>),
      Request("swap", None, <<p2>>, <<BlindedMessage("b1", 2)>>),
      Request("swap", None, <<p2>>, <<BlindedMessage("b2", 2)>>),
      Request("swap", None, <<p1, p2>>, <<BlindedMessage("b1", 64)>>),
      Request("swap", None, <<p2, p2>>,
              <<BlindedMessage("b1", 2), BlindedMessage("b2", 2)>>) }

MintRequests ==
    { Request("mint", MintQuoteId, <<>>, <<BlindedMessage("b1", 2)>>),
      Request("mint", MintQuoteId, <<>>, <<BlindedMessage("b2", 2)>>),
      Request("mint", MintQuoteId, <<>>, <<BlindedMessage("b1", 64)>>) }

MeltRequests ==
    { Request("melt", MeltQuoteId, <<p1, p2>>, <<>>),
      Request("melt", MeltQuoteId, <<p1, p2>>, <<BlindedMessage("b3", 0)>>),
      Request("melt", MeltQuoteId, <<p2>>, <<BlindedMessage("b3", 0)>>) }

NoRequest == Request(None, None, <<>>, <<>>)

\* The melt quote stored by melt_quote: a 64 sat invoice with a fee reserve of 2.
MeltQuoteAmount == 64
MeltQuoteFeeReserve == 2
\* The fees (msat) the node may have to pay for the invoice.
FeesMsat == {0, 1000}
\* The mint quote's invoice amount.
MintQuoteAmount == 2

\* ------------------------------------------------------------------- state

VARIABLES
    proofs_used,      \* table proofs_used: secret -> number of rows
    proofs_pending,   \* table proofs_pending: secret -> number of rows
    promises,         \* table promises: B_ -> rows (amount) in insertion order
    invoices,         \* table invoices (mint quotes): the row of MintQuoteId
    melt_quotes,      \* table melt_quotes: the row of MeltQuoteId
    mint_quotes,      \* table mint_quotes: the rows m012 has copied from invoices
    quote_lock,       \* row lock per quote: the worker holding it, or None
    ln_invoice_paid,  \* backend: the mint quote's invoice has been paid
    ln_payment,       \* backend: the outgoing payment of the melt quote,
                      \*   status none / inflight / complete / failed and the fee sent
    tx,               \* per worker: the uncommitted writes of its transaction
    pc,               \* per worker: position in its handler
    req,              \* per worker: the request it handles
    events,           \* LedgerEventManager: the subscribers and the event
                      \*   being submitted
    listener,         \* the invoice_listener task and its paid_invoices_stream
    ln_paid,          \* backend: the paid invoices, in the order of pay_index
    redis,            \* RedisCache: key -> <<the stored response>>, or <<>>
    idx,              \* per worker: loop index over inputs or outputs
    tries,            \* per worker: failed attempts of acquire_lock in this request
    payres,           \* per worker: what _pay_lightning_invoice returned
    res               \* per worker: outcome of the last request

db == <<proofs_used, proofs_pending, promises, invoices, melt_quotes, mint_quotes>>
ledgers == <<proofs_used, proofs_pending, promises>>
backend == <<ln_invoice_paid, ln_payment>>
local == <<tx, pc, req, idx, tries, payres, res>>
tasks == <<events, listener, ln_paid, redis>>
vars == <<proofs_used, proofs_pending, promises, invoices, melt_quotes, mint_quotes,
          quote_lock, ln_invoice_paid, ln_payment,
          tx, pc, req, idx, tries, payres, res,
          events, listener, ln_paid, redis>>

ZeroRows == [s \in Secrets |-> 0]
NoPromises == [b \in B_s |-> <<>>]
\* inv, paid, mq: the transaction's UPDATE of the quote rows (<<>>: none)
NoTx == [used |-> ZeroRows, pend |-> ZeroRows, unpend |-> {},
         prom |-> NoPromises, inv |-> <<>>, paid |-> <<>>, mq |-> <<>>]
\* fee_msat: <<>> for None, <<n>> for n
NoPayment == [ok |-> None, fee_msat |-> <<>>]
Payment(status, fee_msat) == [status |-> status, fee_msat |-> fee_msat]

\* -------------------------------------------------------------------- crud

\* A statement's result: raised (IntegrityError) or the transaction's rows.
Raised == [raised |-> TRUE, rows |-> None]
Rows(r) == [raised |-> FALSE, rows |-> r]

\* (variant: the table without its UNIQUE (secret) constraint)
invalidate_proof_not_unique(committed, own, proof) ==
    Rows([own EXCEPT ![proof.secret] = @ + 1])

\* INSERT INTO proofs_used ... with UNIQUE (secret)
invalidate_proof(committed, own, proof) ==
    IF committed[proof.secret] + own[proof.secret] > 0
    THEN Raised
    ELSE Rows([own EXCEPT ![proof.secret] = @ + 1])

\* INSERT INTO proofs_pending ... with UNIQUE (secret)
set_proof_pending(committed, own, proof) ==
    IF committed[proof.secret] + own[proof.secret] > 0
    THEN Raised
    ELSE Rows([own EXCEPT ![proof.secret] = @ + 1])

\* (variant: the DELETE matches no row)
unset_proof_pending_no_row(own, proof) == own

\* DELETE FROM proofs_pending WHERE secret = ?: the transaction's own row and
\* the committed row go
unset_proof_pending(own, proof) ==
    [own EXCEPT !.pend = [@ EXCEPT ![proof.secret] = 0],
                !.unpend = @ \cup {proof.secret}]

\* SELECT secret from proofs_used
get_secrets_used(committed, own) ==
    {s \in Secrets : committed[s] + own[s] > 0}

\* a row of table promises, its columns in the order the migrations add them
PromiseRow(amount, B_, C_, id, e, s) ==
    [amount |-> amount, B_b |-> B_, C_b |-> C_, id |-> id, e |-> e, s |-> s]

\* (variant: the table without its UNIQUE (B_b) constraint)
store_promise_not_unique(committed, own, amount, B_, C_, id, e, s) ==
    Rows([own EXCEPT ![B_] = Append(@, PromiseRow(amount, B_, C_, id, e, s))])

\* INSERT INTO promises (amount, B_b, C_b, e, s, id) ... with UNIQUE (B_b)
store_promise(committed, own, amount, B_, C_, id, e, s) ==
    IF Len(committed[B_]) + Len(own[B_]) > 0
    THEN Raised
    ELSE Rows([own EXCEPT ![B_] = Append(@, PromiseRow(amount, B_, C_, id, e, s))])

\* SELECT * from promises WHERE B_b = ? (committed rows and the transaction's own):
\* <<>> for None, else BlindedSignature(amount=row[0], C_=row[2], id=row[3])
get_promise(committed, own, B_) ==
    LET rows == committed[B_] \o own[B_]
        row == Head(rows)
    IN IF rows = <<>> THEN <<>>
       ELSE <<BlindedSignature(row.id, row.amount, row.C_b, <<>>)>>

\* ------------------------------------------------------------ verification

_verify_amount(amount) == amount > 0 /\ amount < 2 ^ max_order

\* (variant: two proofs are duplicates only if all their fields agree)
_verify_no_duplicate_proofs_whole(proofs) ==
    Len(proofs) = Cardinality(Range(proofs))

_verify_no_duplicate_proofs(proofs) ==
    Len(proofs) = Cardinality({proofs[i].secret : i \in 1..Len(proofs)})

_verify_no_duplicate_outputs(outputs) ==
    Len(outputs) = Cardinality({outputs[i].B_ : i \in 1..Len(outputs)})

\* the failures that are no protocol errors
AssertionError == "AssertionError"
KeyError == "KeyError"

\* "ok" or the failure of `assert proof.id in self.keysets`; the signature C
\* of the proofs of the model is valid
_verify_proof_bdhke(proof) ==
    IF proof.id \notin DOMAIN keysets THEN AssertionError ELSE "ok"

\* "ok" or the failure: self.keysets[...] of an unknown id is a KeyError
_verify_units_match(proofs, outs) ==
    IF \E i \in 1..Len(proofs) : proofs[i].id \notin DOMAIN keysets THEN KeyError
    ELSE IF \E i \in 1..Len(outs) : outs[i].id \notin DOMAIN keysets THEN KeyError
    ELSE LET units_proofs == {keysets[proofs[i].id].unit : i \in 1..Len(proofs)}
             units_outputs == {keysets[outs[i].id].unit : i \in 1..Len(outs)}
         IN IF Cardinality(units_proofs) # 1 THEN "inputs have different units."
            ELSE IF Cardinality(units_outputs) # 1
                 THEN "outputs have different units."
            ELSE IF units_proofs # units_outputs
                 THEN "input and output keysets have different units."
            ELSE "ok"

\* (variant: the fee is rounded down)
get_fees_for_proofs_floor(proofs) ==
    LET RECURSIVE ppk(_)
        ppk(seq) == IF seq = <<>> THEN 0
                    ELSE keysets[Head(seq).id].input_fee_ppk + ppk(Tail(seq))
    IN ppk(proofs) \div 1000

get_fees_for_proofs(proofs) ==
    LET RECURSIVE ppk(_)
        ppk(seq) == IF seq = <<>> THEN 0
                    ELSE keysets[Head(seq).id].input_fee_ppk + ppk(Tail(seq))
    IN (ppk(proofs) + 999) \div 1000

\* (variant: the amounts are checked one by one but not weighed against each other)
_verify_equation_unbalanced(proofs, outs) ==
    IF proofs = <<>> THEN "no proofs provided."
    ELSE IF outs = <<>> THEN "no outputs provided."
    ELSE IF _verify_units_match(proofs, outs) # "ok"
         THEN _verify_units_match(proofs, outs)
    ELSE IF \E i \in 1..Len(proofs) : ~_verify_amount(proofs[i].amount)
         THEN "invalid amount"
    ELSE IF \E i \in 1..Len(outs) : ~_verify_amount(outs[i].amount)
         THEN "invalid amount"
    ELSE "ok"

\* "ok" or the error the verification raises.
_verify_equation_balanced(proofs, outs) ==
    IF proofs = <<>> THEN "no proofs provided."
    ELSE IF outs = <<>> THEN "no outputs provided."
    ELSE IF _verify_units_match(proofs, outs) # "ok"
         THEN _verify_units_match(proofs, outs)
    ELSE IF \E i \in 1..Len(proofs) : ~_verify_amount(proofs[i].amount)
         THEN "invalid amount"
    ELSE IF \E i \in 1..Len(outs) : ~_verify_amount(outs[i].amount)
         THEN "invalid amount"
    ELSE IF SumAmounts(outs) + get_fees_for_proofs(proofs) - SumAmounts(proofs) # 0
         THEN "not balanced"
    ELSE "ok"

_check_outputs_issued_before(committed, own, outputs) ==
    [i \in 1..Len(outputs) |-> get_promise(committed, own, outputs[i].B_) # <<>>]

\* (variant: the keyset of the outputs need not be active)
_verify_outputs_inactive(committed, own, outputs, skip_amount_check) ==
    IF outputs = <<>> THEN "no outputs provided."
    ELSE IF \E i \in 1..Len(outputs) : outputs[i].id # outputs[1].id
         THEN "outputs have different keyset ids."
    ELSE IF outputs[1].id \notin DOMAIN keysets THEN "keyset id unknown."
    ELSE IF ~skip_amount_check
            /\ \E i \in 1..Len(outputs) : ~_verify_amount(outputs[i].amount)
         THEN "invalid amount"
    ELSE IF ~_verify_no_duplicate_outputs(outputs) THEN "duplicate outputs."
    ELSE IF \E i \in 1..Len(outputs) :
                _check_outputs_issued_before(committed, own, outputs)[i]
         THEN "outputs have already been signed before."
    ELSE "ok"

_verify_outputs(committed, own, outputs, skip_amount_check) ==
    IF outputs = <<>> THEN "no outputs provided."
    ELSE IF \E i \in 1..Len(outputs) : outputs[i].id # outputs[1].id
         THEN "outputs have different keyset ids."
    ELSE IF outputs[1].id \notin DOMAIN keysets THEN "keyset id unknown."
    ELSE IF ~keysets[outputs[1].id].active THEN "keyset id inactive."
    ELSE IF ~skip_amount_check
            /\ \E i \in 1..Len(outputs) : ~_verify_amount(outputs[i].amount)
         THEN "invalid amount"
    ELSE IF ~_verify_no_duplicate_outputs(outputs) THEN "duplicate outputs."
    ELSE IF \E i \in 1..Len(outputs) :
                _check_outputs_issued_before(committed, own, outputs)[i]
         THEN "outputs have already been signed before."
    ELSE "ok"

\* outputs: Optional[List[BlindedMessage]], <<>> for None, <<list>> for a list
verify_inputs_and_outputs(committed, own, proofs, outputs) ==
    IF proofs = <<>> THEN "no proofs provided."
    ELSE IF \E i \in 1..Len(proofs) : ~_verify_amount(proofs[i].amount)
         THEN "invalid amount"
    ELSE IF ~_verify_no_duplicate_proofs(proofs) THEN "duplicate proofs."
    ELSE IF \E i \in 1..Len(proofs) : _verify_proof_bdhke(proofs[i]) # "ok"
         THEN AssertionError
    ELSE IF outputs = <<>> THEN "ok"
    ELSE IF _verify_equation_balanced(proofs, outputs[1]) # "ok"
         THEN _verify_equation_balanced(proofs, outputs[1])
    ELSE IF _verify_outputs(committed, own, outputs[1], FALSE) # "ok"
         THEN _verify_outputs(committed, own, outputs[1], FALSE)
    ELSE IF SumAmounts(proofs) < SumAmounts(outputs[1])
         THEN "input amounts less than output."
    ELSE "ok"

\* ------------------------------------------------------------ transactions

Other(w) == CHOOSE o \in Workers : o # w

\* the row lock of the transaction is released when the transaction ends
ReleaseLocks(w) ==
    quote_lock' = [q \in QuoteIds |->
                      IF quote_lock[q] = w THEN None ELSE quote_lock[q]]

\* (variant: a COMMIT writes the quote rows anew if the transaction has not
\* updated them)
CommitTables_new_quote_rows(t) ==
    /\ proofs_used' = [s \in Secrets |-> proofs_used[s] + t.used[s]]
    /\ proofs_pending' =
           [s \in Secrets |->
               (IF s \in t.unpend THEN 0 ELSE proofs_pending[s]) + t.pend[s]]
    /\ promises' = [b \in B_s |-> promises[b] \o t.prom[b]]
    /\ invoices' = [invoices EXCEPT
                       !.issued = IF t.inv = <<>> THEN FALSE ELSE t.inv[1]]
    /\ melt_quotes' = [melt_quotes EXCEPT
                          !.state = IF t.mq = <<>> THEN "PENDING" ELSE t.mq[1].state]
    /\ UNCHANGED mint_quotes

\* COMMIT of the transaction t: its rows become visible.
CommitTables(t) ==
    /\ proofs_used' = [s \in Secrets |-> proofs_used[s] + t.used[s]]
    /\ proofs_pending' =
           [s \in Secrets |->
               (IF s \in t.unpend THEN 0 ELSE proofs_pending[s]) + t.pend[s]]
    /\ promises' = [b \in B_s |-> promises[b] \o t.prom[b]]
    /\ invoices' = [invoices EXCEPT
                       !.issued = IF t.inv = <<>> THEN @ ELSE t.inv[1],
                       !.paid = IF t.paid = <<>> THEN @ ELSE t.paid[1]]
    /\ melt_quotes' = IF t.mq = <<>> THEN melt_quotes
                      ELSE [melt_quotes EXCEPT !.state = t.mq[1].state,
                                               !.change = t.mq[1].change]
    /\ UNCHANGED mint_quotes

\* the handler of w ends with result r (after COMMIT or ROLLBACK)
Finish(w, r) ==
    /\ tx' = [tx EXCEPT ![w] = NoTx]
    /\ pc' = [pc EXCEPT ![w] = "done"]
    /\ res' = [res EXCEPT ![w] = r]
    /\ idx' = [idx EXCEPT ![w] = 0]
    /\ tries' = [tries EXCEPT ![w] = 0]
    /\ payres' = [payres EXCEPT ![w] = NoPayment]
    /\ ReleaseLocks(w)
    /\ UNCHANGED <<req, tasks>>

\* (variant: the transaction is committed when the handler fails)
Fail_commits(w, error) ==
    /\ Finish(w, error)
    /\ CommitTables(tx[w])
    /\ UNCHANGED backend

\* An exception inside "async with db.connect()": ROLLBACK, the handler fails.
Fail(w, error) ==
    /\ Finish(w, error)
    /\ UNCHANGED <<db, backend>>

\* the handler moves on to position p, loop index i
Goto(w, p, i) ==
    /\ pc' = [pc EXCEPT ![w] = p]
    /\ idx' = [idx EXCEPT ![w] = i]
    /\ UNCHANGED tries

\* (variant: the lock statement succeeds although the row is locked)
acquire_lock_not_exclusive(w) ==
    /\ pc[w] \in {"mint_lock", "melt_lock", "settle_lock"}
    /\ quote_lock' = [quote_lock EXCEPT ![req[w].quote] = w]
    /\ Goto(w, CASE pc[w] = "mint_lock" -> "mint_check"
                 [] pc[w] = "melt_lock" -> "melt_load"
                 [] pc[w] = "settle_lock" -> "melt_settle", 1)
    /\ UNCHANGED <<db, backend, tx, req, tasks, payres, res>>

\* (variant: the lock statement is tried again and again, without a time
\* window)
acquire_lock_unbounded(w) ==
    /\ pc[w] \in {"mint_lock", "melt_lock", "settle_lock"}
    /\ IF quote_lock[req[w].quote] = None
       THEN /\ quote_lock' = [quote_lock EXCEPT ![req[w].quote] = w]
            /\ Goto(w, CASE pc[w] = "mint_lock" -> "mint_check"
                         [] pc[w] = "melt_lock" -> "melt_load"
                         [] pc[w] = "settle_lock" -> "melt_settle", 1)
            /\ UNCHANGED <<db, backend, tx, req, tasks, payres, res>>
       ELSE /\ tries' = [tries EXCEPT ![w] = @ + 1]
            /\ UNCHANGED <<db, backend, quote_lock, tx, pc, req, tasks, idx,
                           payres, res>>

\* Database.acquire_lock: try the lock statement (NOWAIT); on failure sleep and
\* retry until the time window is over, then raise.
acquire_lock(w) ==
    /\ pc[w] \in {"mint_lock", "melt_lock", "settle_lock"}
    /\ IF quote_lock[req[w].quote] = None
       THEN /\ quote_lock' = [quote_lock EXCEPT ![req[w].quote] = w]
            /\ Goto(w, CASE pc[w] = "mint_lock" -> "mint_check"
                         [] pc[w] = "melt_lock" -> "melt_load"
                         [] pc[w] = "settle_lock" -> "melt_settle", 1)
            /\ UNCHANGED <<db, backend, tx, req, tasks, payres, res>>
       ELSE IF tries[w] < MaxLockTries
       THEN /\ tries' = [tries EXCEPT ![w] = @ + 1]
            /\ UNCHANGED <<db, backend, quote_lock, tx, pc, req, tasks, idx, payres, res>>
       ELSE Fail(w, "failed to acquire database lock")

\* the worker has answered its last request; a client's request reaches it
Begin(w, r) ==
    /\ pc[w] = "done"
    /\ req' = [req EXCEPT ![w] = r]
    /\ res' = [res EXCEPT ![w] = None]
    /\ UNCHANGED <<db, backend, quote_lock, tx, payres, tasks>>

\* --------------------------------------------------------------------- swap

swap_begin(w) ==
    \E r \in SwapRequests : Begin(w, r) /\ Goto(w, "swap_pending", 1)

\* swap and melt: one INSERT INTO proofs_pending per input
set_pending(w) ==
    /\ pc[w] \in {"swap_pending", "melt_pending"}
    /\ idx[w] <= Len(req[w].inputs)
    /\ LET p == req[w].inputs[idx[w]]
           r == set_proof_pending(proofs_pending, tx[w].pend, p)
       IN /\ tx[Other(w)].pend[p.secret] = 0
          /\ IF r.raised
             THEN Fail(w, "proofs are pending.")
             ELSE /\ tx' = [tx EXCEPT ![w].pend = r.rows]
                  /\ idx' = [idx EXCEPT ![w] = @ + 1]
                  /\ UNCHANGED <<db, backend, quote_lock, pc, req, tasks, tries, payres, res>>

swap_verify(w) ==
    /\ pc[w] = "swap_pending"
    /\ idx[w] > Len(req[w].inputs)
    /\ LET v == verify_inputs_and_outputs(promises, tx[w].prom,
                                          req[w].inputs, <<req[w].outputs>>)
       IN IF v # "ok"
          THEN Fail(w, v)
          ELSE /\ Goto(w, "swap_store", 1)
               /\ UNCHANGED <<db, backend, quote_lock, tx, req, tasks, payres, res>>

\* swap and mint: one INSERT INTO promises per output
store_promises(w) ==
    /\ pc[w] \in {"swap_store", "mint_store"}
    /\ idx[w] <= Len(req[w].outputs)
    /\ LET o == req[w].outputs[idx[w]]
           sig == _generate_promise(o.id, o.amount, o.B_)
           r == store_promise(promises, tx[w].prom, sig.amount, o.B_, sig.C_,
                              sig.id, sig.dleq[1].e, sig.dleq[1].s)
       IN /\ tx[Other(w)].prom[o.B_] = <<>>
          /\ IF r.raised
             THEN Fail(w, "outputs have already been signed before.")
             ELSE /\ tx' = [tx EXCEPT ![w].prom = r.rows]
                  /\ idx' = [idx EXCEPT ![w] = @ + 1]
                  /\ UNCHANGED <<db, backend, quote_lock, pc, req, tasks, tries, payres, res>>

\* invalidate_proof for every proof, DELETE of its pending row
\* (variant: only the first proof is invalidated)
invalidate_proofs_first(committed, own, proofs) ==
    IF proofs = <<>> THEN Rows(own)
    ELSE LET r == invalidate_proof(committed, own.used, Head(proofs))
         IN IF r.raised THEN Raised
            ELSE Rows(unset_proof_pending([own EXCEPT !.used = r.rows], Head(proofs)))

RECURSIVE invalidate_proofs(_, _, _)
invalidate_proofs(committed, own, proofs) ==
    IF proofs = <<>> THEN Rows(own)
    ELSE LET r == invalidate_proof(committed, own.used, Head(proofs))
         IN IF r.raised THEN Raised
            ELSE invalidate_proofs(
                     committed,
                     unset_proof_pending([own EXCEPT !.used = r.rows], Head(proofs)),
                     Tail(proofs))

\* INSERT INTO proofs_used for every input, DELETE FROM proofs_pending, COMMIT
swap_invalidate(w) ==
    /\ pc[w] = "swap_store"
    /\ idx[w] > Len(req[w].outputs)
    /\ LET r == invalidate_proofs(proofs_used, tx[w], req[w].inputs)
       IN IF r.raised
          THEN Fail(w, "Token already spent.")
          ELSE /\ CommitTables(r.rows)
               /\ Finish(w, "ok")
               /\ UNCHANGED backend

\* --------------------------------------------------------------------- mint

\* CoreLightningRestWallet.statuses.get(status)
statuses_get(status) ==
    CASE status = "paid" -> True
      [] status = "complete" -> True
      [] status = "failed" -> False
      [] status = "pending" -> None
      [] OTHER -> None

\* the exception of a request that does not reach the node
ConnectError == "httpx.ConnectError"

\* (variant: an error answer is taken for a paid invoice)
get_invoice_status_error_is_paid(r) ==
    IF r.raises THEN ConnectError
    ELSE IF r.is_error THEN True ELSE statuses_get(r.status)

\* CoreLightningRestWallet.get_invoice_status on the answer of /v1/listinvoices:
\* the request itself is made outside the try and its exception goes to the
\* caller; an error answer raises inside the try and gives paid=None
get_invoice_status(r) ==
    IF r.raises THEN ConnectError
    ELSE IF r.is_error THEN None ELSE statuses_get(r.status)

ListInvoicesAnswer(raises, is_error, status) ==
    [raises |-> raises, is_error |-> is_error, status |-> status]

\* what /v1/listinvoices can answer for the mint quote's invoice
ListInvoices ==
    {ListInvoicesAnswer(TRUE, FALSE, None), ListInvoicesAnswer(FALSE, TRUE, None)}
    \cup (IF ln_invoice_paid
          THEN {ListInvoicesAnswer(FALSE, FALSE, "paid")}
          ELSE {ListInvoicesAnswer(FALSE, FALSE, "unpaid"),
                ListInvoicesAnswer(FALSE, FALSE, "expired")})

\* (variant: the issued flag of the invoice is not looked at)
_check_lightning_invoice_ignores_issued(invoice, amount) ==
    IF invoice = <<>> THEN "invoice not found."
    ELSE IF amount > invoice[1].amount THEN "requested amount too high"
    ELSE "ok"

\* (variant: the amount asked for is not compared with the invoice's)
_check_lightning_invoice_any_amount(invoice, amount) ==
    IF invoice = <<>> THEN "invoice not found."
    ELSE IF invoice[1].issued THEN "tokens already issued for this invoice."
    ELSE "ok"

\* _check_lightning_invoice, up to the update of issued: "ok" or the error raised
\* (invoice: <<>> for None, <<row>> for the row)
_check_lightning_invoice(invoice, amount) ==
    IF invoice = <<>> THEN "invoice not found."
    ELSE IF invoice[1].issued THEN "tokens already issued for this invoice."
    ELSE IF amount > invoice[1].amount THEN "requested amount too high"
    ELSE "ok"

\* SELECT * from invoices WHERE hash = ?, as the transaction sees the row
get_lightning_invoice(committed, own, id) ==
    IF id # MintQuoteId THEN <<>>
    ELSE IF own = <<>> THEN <<committed>>
    ELSE <<[committed EXCEPT !.issued = own[1]]>>

\* UPDATE invoices SET issued = ? WHERE hash = ?
update_lightning_invoice(own, issued) == <<issued>>

mint_begin(w) ==
    \E r \in MintRequests : Begin(w, r) /\ Goto(w, "mint_lock", 0)

\* the invoice is fetched and checked, and set as issued
mint_check(w) ==
    /\ pc[w] = "mint_check"
    /\ LET invoice == get_lightning_invoice(invoices, tx[w].inv, req[w].quote)
           c == _check_lightning_invoice(invoice, SumAmounts(req[w].outputs))
       IN IF c # "ok"
          THEN Fail(w, c)
          ELSE /\ tx' = [tx EXCEPT ![w].inv = update_lightning_invoice(@, TRUE)]
               /\ Goto(w, "mint_status", 1)
               /\ UNCHANGED <<db, backend, quote_lock, req, tasks, payres, res>>

\* the backend is asked whether the invoice was paid; if it was not, issued is
\* unset and the error passed through
mint_status(w) ==
    /\ pc[w] = "mint_status"
    /\ \E r \in ListInvoices :
          IF get_invoice_status(r) = True
          THEN /\ Goto(w, "mint_verify", 1)
               /\ UNCHANGED <<db, backend, quote_lock, tx, req, tasks, payres, res>>
          ELSE IF get_invoice_status(r) = ConnectError
          THEN Fail(w, ConnectError)
          ELSE Fail(w, "Lightning invoice not paid yet.")

mint_verify(w) ==
    /\ pc[w] = "mint_verify"
    /\ LET v == _verify_outputs(promises, tx[w].prom, req[w].outputs, FALSE)
       IN IF v # "ok"
          THEN Fail(w, v)
          ELSE /\ Goto(w, "mint_store", 1)
               /\ UNCHANGED <<db, backend, quote_lock, tx, req, tasks, payres, res>>

\* COMMIT: the promises and the issued quote become visible
mint_commit(w) ==
    /\ pc[w] = "mint_store"
    /\ idx[w] > Len(req[w].outputs)
    /\ CommitTables(tx[w])
    /\ Finish(w, "ok")
    /\ UNCHANGED backend

\* the payer pays the mint quote's invoice
invoice_paid ==
    /\ ~ln_invoice_paid
    /\ ln_invoice_paid' = TRUE
    /\ ln_paid' = Append(ln_paid, MintQuoteId)
    /\ UNCHANGED <<db, quote_lock, ln_payment, local, events, listener, redis>>

\* --------------------------------------------------------------------- melt

\* amount_split (binary decomposition, ascending), from bit `bit` on
RECURSIVE amount_split_from(_, _)
amount_split_from(amount, bit) ==
    IF amount = 0 THEN <<>>
    ELSE IF amount % 2 = 1
         THEN <<bit>> \o amount_split_from(amount \div 2, 2 * bit)
         ELSE amount_split_from(amount \div 2, 2 * bit)

amount_split(amount) == amount_split_from(amount, 1)

\* the answer of /v1/pay
CLNError == [is_error |-> TRUE, status |-> None,
             amount_msat |-> 0, amount_sent_msat |-> 0]
CLNPay(status, amount_msat, fee_msat) ==
    [is_error |-> FALSE, status |-> status,
     amount_msat |-> amount_msat, amount_sent_msat |-> amount_msat + fee_msat]

PaymentResponse(ok, fee_msat) == [ok |-> ok, fee_msat |-> fee_msat]

\* CoreLightningRestWallet.pay_invoice: bolt11 is the decoded invoice
\* (<<>> if it does not decode), r the answer of /v1/pay
CoreLightningRestWallet_pay_invoice(quote, bolt11, supports_mpp, r) ==
    IF bolt11 = <<>> THEN PaymentResponse(False, <<>>)
    ELSE IF bolt11[1].amount_msat <= 0 THEN PaymentResponse(False, <<>>)
    ELSE IF quote.amount * 1000 # bolt11[1].amount_msat /\ ~supports_mpp
         THEN PaymentResponse(False, <<>>)
    ELSE IF r.is_error THEN PaymentResponse(False, <<>>)
    ELSE IF r.status # "complete" THEN PaymentResponse(False, <<>>)
    ELSE LET fee_msat == r.amount_sent_msat - r.amount_msat
         IN PaymentResponse(statuses_get(r.status),
                            IF fee_msat # 0 THEN <<fee_msat>> ELSE <<>>)

\* (variant: the fee of the payment is not passed on)
_pay_lightning_invoice_without_fee(payment) ==
    [ok |-> payment.ok, fee_msat |-> <<>>]

\* _pay_lightning_invoice after the status check: the fee is made positive
_pay_lightning_invoice(payment) ==
    [ok |-> payment.ok,
     fee_msat |-> IF payment.fee_msat # <<>> /\ payment.fee_msat[1] # 0
                  THEN (IF payment.fee_msat[1] < 0 THEN <<-payment.fee_msat[1]>>
                        ELSE payment.fee_msat)
                  ELSE payment.fee_msat]

\* the fee paid in the quote's unit, rounded up
fee_paid(fee_msat) ==
    IF fee_msat = <<>> THEN 0 ELSE (fee_msat[1] + 999) \div 1000

\* the bolt11 invoice of the melt quote
Bolt11(quote) == <<[amount_msat |-> quote.amount * 1000]>>

\* the fees the node may pay under the limit it is given (maxfeepercent): the
\* fee reserve of the quote
FeesWithin(quote) == {f \in FeesMsat : f <= quote.fee_reserve * 1000}

\* What the node does with a pay request and what it answers: the payment
\* completes with a fee, is still in flight, or fails; an error
\* answer tells a failure or leaves the outcome open.  A payment that is
\* complete stays complete.
PayOutcomes(quote) ==
    LET msat == quote.amount * 1000
        fresh == {[r |-> CLNPay("complete", msat, f),
                   after |-> Payment("complete", f)] : f \in FeesWithin(quote)}
                 \cup {[r |-> CLNPay("pending", msat, 0), after |-> Payment("inflight", 0)],
                       [r |-> CLNPay("failed", msat, 0), after |-> Payment("failed", 0)],
                       [r |-> CLNError, after |-> Payment("failed", 0)],
                       [r |-> CLNError, after |-> Payment("inflight", 0)]}
    IN IF ln_payment.status = "complete"
       THEN {[r |-> CLNPay("complete", msat, ln_payment.fee_msat), after |-> ln_payment],
             [r |-> CLNError, after |-> ln_payment]}
       ELSE fresh

melt_begin(w) ==
    \E r \in MeltRequests : Begin(w, r) /\ Goto(w, "melt_lock", 0)

\* the quote is loaded under the lock: it must be UNPAID and the inputs must
\* cover amount and fee reserve
melt_load(w) ==
    /\ pc[w] = "melt_load"
    /\ IF melt_quotes.state # "UNPAID"
       THEN Fail(w, "melt quote is not unpaid.")
       ELSE IF SumAmounts(req[w].inputs)
                   # melt_quotes.amount + melt_quotes.fee_reserve
       THEN Fail(w, "inputs do not match amount and fee reserve.")
       ELSE /\ Goto(w, "melt_pending", 1)
            /\ UNCHANGED <<db, backend, quote_lock, tx, req, tasks, payres, res>>

\* the checks of the inputs against the spent ledger and of the blank outputs
melt_verify(w) ==
    /\ pc[w] = "melt_pending"
    /\ idx[w] > Len(req[w].inputs)
    /\ LET v == verify_inputs_and_outputs(promises, tx[w].prom, req[w].inputs, <<>>)
           o == IF req[w].outputs = <<>> THEN "ok"
                ELSE _verify_outputs(promises, tx[w].prom, req[w].outputs, TRUE)
       IN IF SecretsOf(req[w].inputs) \cap get_secrets_used(proofs_used, tx[w].used) # {}
          THEN Fail(w, "Token already spent.")
          ELSE IF v # "ok" THEN Fail(w, v)
          ELSE IF o # "ok" THEN Fail(w, o)
          ELSE IF \E i \in 1..Len(req[w].outputs) : req[w].outputs[i].amount # 0
          THEN Fail(w, "blank outputs must have amount 0.")
          ELSE /\ Goto(w, "melt_commit", 1)
               /\ UNCHANGED <<db, backend, quote_lock, tx, req, tasks, payres, res>>

\* the invoice of the melt quote is the invoice of an unpaid mint quote of this
\* mint
IsInternal ==
    /\ melt_quotes.checking_id = MintQuoteId
    /\ ~invoices.paid /\ ~invoices.issued

\* inputs pending, quote PENDING, COMMIT: the lock is released before the payment
melt_commit(w) ==
    /\ pc[w] = "melt_commit"
    /\ ~IsInternal
    /\ CommitTables([tx[w] EXCEPT !.mq = <<[state |-> "PENDING", change |-> <<>>]>>])
    /\ ReleaseLocks(w)
    /\ tx' = [tx EXCEPT ![w] = NoTx]
    /\ Goto(w, "melt_pay", 0)
    /\ UNCHANGED <<backend, req, tasks, payres, res>>

\* _pay_lightning_invoice: the backend's status, then pay_invoice.  A result
\* that is neither paid nor failed leaves the quote PENDING.
melt_pay(w) ==
    /\ pc[w] = "melt_pay"
    /\ \/ Fail(w, "Lightning wallet not responding")
       \/ \E o \in PayOutcomes(melt_quotes) :
             LET p == _pay_lightning_invoice(
                          CoreLightningRestWallet_pay_invoice(
                              melt_quotes, Bolt11(melt_quotes), FALSE, o.r))
             IN /\ ln_payment' = o.after
                /\ payres' = [payres EXCEPT ![w] = p]
                /\ pc' = [pc EXCEPT ![w] = IF p.ok = None THEN "done"
                                            ELSE "settle_lock"]
                /\ res' = [res EXCEPT ![w] = IF p.ok = None THEN "pending" ELSE @]
                /\ tries' = [tries EXCEPT ![w] = 0]
                /\ UNCHANGED idx
                /\ UNCHANGED <<db, quote_lock, ln_invoice_paid, tx, req, tasks>>

\* the blank outputs signed for the change: a prefix of the blanks with the
\* denominations of the change
change_promises(outputs, change) ==
    LET return_amounts == amount_split(change)
        n == IF Len(outputs) < Len(return_amounts) THEN Len(outputs)
             ELSE Len(return_amounts)
    IN [i \in 1..n |-> [id |-> outputs[i].id, B_ |-> outputs[i].B_,
                        amount |-> return_amounts[i]]]

RECURSIVE store_change(_, _, _)
store_change(committed, own, change) ==
    IF change = <<>> THEN Rows(own)
    ELSE LET o == Head(change)
             sig == _generate_promise(o.id, o.amount, o.B_)
             r == store_promise(committed, own, sig.amount, o.B_, sig.C_,
                                sig.id, sig.dleq[1].e, sig.dleq[1].s)
         IN IF r.raised THEN Raised
            ELSE store_change(committed, r.rows, Tail(change))

RECURSIVE unset_proofs_pending(_, _)
unset_proofs_pending(own, proofs) ==
    IF proofs = <<>> THEN own
    ELSE unset_proofs_pending(unset_proof_pending(own, Head(proofs)), Tail(proofs))

\* the settlement transaction, under the quote's lock.
\* paid: pending -> spent, change signed, quote PAID.
\* failed: pending deleted, quote UNPAID.
melt_settle(w) ==
    /\ pc[w] = "melt_settle"
    /\ IF payres[w].ok = True
       THEN LET change == SumAmounts(req[w].inputs) - melt_quotes.amount
                              - fee_paid(payres[w].fee_msat)
                signed == change_promises(req[w].outputs, change)
                u == invalidate_proofs(proofs_used, tx[w], req[w].inputs)
                c == store_change(promises, tx[w].prom, signed)
            IN IF u.raised THEN Fail(w, "Token already spent.")
               ELSE IF c.raised
               THEN Fail(w, "outputs have already been signed before.")
               ELSE /\ CommitTables([u.rows EXCEPT
                           !.prom = c.rows,
                           !.mq = <<[state |-> "PAID", change |-> signed]>>])
                    /\ Finish(w, "paid")
                    /\ UNCHANGED backend
       ELSE /\ CommitTables([unset_proofs_pending(tx[w], req[w].inputs) EXCEPT
                   !.mq = <<[state |-> "UNPAID", change |-> <<>>]>>])
            /\ Finish(w, "Lightning payment unsuccessful.")
            /\ UNCHANGED backend

\* a payment in flight is settled or fails for good
payment_resolves ==
    /\ ln_payment.status = "inflight"
    /\ ln_payment' \in {Payment("complete", f) : f \in FeesWithin(melt_quotes)}
                       \cup {Payment("failed", 0)}
    /\ UNCHANGED <<db, quote_lock, ln_invoice_paid, local, tasks>>

\* what /v1/listpays can answer for the melt quote's payment_hash
ListPays ==
    LET msat == melt_quotes.amount * 1000
    IN {[is_error |-> TRUE, pays |-> <<>>]}
       \cup (CASE ln_payment.status = "none" -> {[is_error |-> FALSE, pays |-> <<>>]}
               [] ln_payment.status = "inflight" ->
                     {[is_error |-> FALSE, pays |-> <<CLNPay("pending", msat, 0)>>]}
               [] ln_payment.status = "failed" ->
                     {[is_error |-> FALSE, pays |-> <<CLNPay("failed", msat, 0)>>]}
               [] ln_payment.status = "complete" ->
                     {[is_error |-> FALSE,
                       pays |-> <<CLNPay("complete", msat, ln_payment.fee_msat)>>]})

\* (variant: the status of the payment is never learnt)
get_payment_status_unknown(r) == PaymentResponse(None, <<>>)

\* CoreLightningRestWallet.get_payment_status on the answer r of /v1/listpays:
\* every exception inside the try gives paid=None
get_payment_status(r) ==
    IF r.is_error \/ r.pays = <<>> THEN PaymentResponse(None, <<>>)
    ELSE LET pay == r.pays[1]
             fee_msat == IF statuses_get(pay.status) = True
                         THEN <<-pay.amount_sent_msat - pay.amount_msat>>
                         ELSE <<>>
         IN IF pay.status \notin {"paid", "complete", "failed", "pending"}
            THEN PaymentResponse(None, <<>>)
            ELSE PaymentResponse(statuses_get(pay.status),
                                 IF fee_msat # <<>> /\ fee_msat[1] # 0
                                 THEN fee_msat ELSE <<>>)

\* the proofs the pending ledger holds for the melt quote
PendingProofs == SelectSeq(<<p1, p2>>, LAMBDA p : proofs_pending[p.secret] > 0)

\* the reconciliation of a melt quote left PENDING by a handler that is gone:
\* the backend is asked for the payment; paid: pending -> spent, quote PAID;
\* failed: pending deleted, quote UNPAID; otherwise the quote is left PENDING
check_pending_melt ==
    /\ melt_quotes.state = "PENDING"
    /\ quote_lock[MeltQuoteId] = None
    /\ \A w \in Workers : pc[w] \notin {"melt_pay", "settle_lock", "melt_settle"}
    /\ \E r \in ListPays :
          LET status == get_payment_status(r)
              u == invalidate_proofs(proofs_used, NoTx, PendingProofs)
          IN /\ status.ok # None
             /\ IF status.ok = True
                THEN /\ ~u.raised
                     /\ CommitTables([u.rows EXCEPT
                            !.mq = <<[state |-> "PAID", change |-> <<>>]>>])
                ELSE CommitTables([unset_proofs_pending(NoTx, PendingProofs) EXCEPT
                            !.mq = <<[state |-> "UNPAID", change |-> <<>>]>>])
    /\ UNCHANGED <<quote_lock, backend, local, tasks>>

CacheKeys == {"/v1/swap{p1}", "/v1/swap{p2}"}

\* the event manager without subscribers, the listener task not yet started,
\* no invoice paid, nothing cached
InitTasks ==
    /\ events = [clients |-> <<>>, call |-> None, ret |-> None,
                 submit |-> <<>>, submitted |-> <<>>, sent |-> <<>>,
                 since_submit |-> {}]
    /\ listener = [pc |-> "start", last_pay_index |-> 0, checking_id |-> None,
                   first_pay_index |-> 0, yielded |-> <<>>]
    /\ ln_paid = <<>>
    /\ redis = [k \in CacheKeys |-> <<>>]

\* ------------------------------------------------------------ specification

Init ==
    /\ proofs_used = ZeroRows
    /\ proofs_pending = ZeroRows
    /\ promises = NoPromises
    /\ invoices = [amount |-> MintQuoteAmount, issued |-> FALSE, paid |-> FALSE]
    /\ mint_quotes = <<>>
    /\ melt_quotes = [checking_id |-> ExternalInvoice,
                      amount |-> MeltQuoteAmount, fee_reserve |-> MeltQuoteFeeReserve,
                      state |-> "UNPAID", change |-> <<>>]
    /\ quote_lock = [q \in QuoteIds |-> None]
    /\ ln_invoice_paid = FALSE
    /\ ln_payment = Payment("none", 0)
    /\ tx = [w \in Workers |-> NoTx]
    /\ pc = [w \in Workers |-> "done"]
    /\ req = [w \in Workers |-> NoRequest]
    /\ idx = [w \in Workers |-> 0]
    /\ tries = [w \in Workers |-> 0]
    /\ payres = [w \in Workers |-> NoPayment]
    /\ res = [w \in Workers |-> None]
    /\ InitTasks

Next ==
    \/ \E w \in Workers :
          \/ swap_begin(w)
          \/ mint_begin(w)
          \/ melt_begin(w)
          \/ acquire_lock(w)
          \/ set_pending(w)
          \/ swap_verify(w)
          \/ store_promises(w)
          \/ swap_invalidate(w)
          \/ mint_check(w)
          \/ mint_status(w)
          \/ mint_verify(w)
          \/ mint_commit(w)
          \/ melt_load(w)
          \/ melt_verify(w)
          \/ melt_commit(w)
          \/ melt_pay(w)
          \/ melt_settle(w)
    \/ invoice_paid
    \/ payment_resolves
    \/ check_pending_melt

Spec == Init /\ [][Next]_vars


\* ---------------------------------------------- the backends' pay_invoice

\* BlinkWallet.payment_execution_statuses
payment_execution_statuses == [SUCCESS |-> True, ALREADY_PAID |-> None]

\* BlinkWallet.pay_invoice on the answer r of the lnInvoicePaymentSend mutation;
\* ok "KeyError": the lookup of the status raises
BlinkWallet_pay_invoice(r) ==
    IF r.http_error THEN PaymentResponse(False, <<>>)
    ELSE IF r.status \notin DOMAIN payment_execution_statuses
         THEN PaymentResponse("KeyError", <<>>)
    ELSE PaymentResponse(payment_execution_statuses[r.status], <<r.settlementFee>>)

BlinkAnswer(http_error, status, fee) ==
    [http_error |-> http_error, status |-> status, settlementFee |-> fee]

\* what Blink does with the mutation and what it answers
BlinkOutcomes ==
    IF ln_payment.status = "complete"
    THEN {[r |-> BlinkAnswer(FALSE, "ALREADY_PAID", 0), after |-> ln_payment],
          [r |-> BlinkAnswer(TRUE, None, 0), after |-> ln_payment]}
    ELSE {[r |-> BlinkAnswer(FALSE, "SUCCESS", f \div 1000),
           after |-> Payment("complete", f)] : f \in FeesMsat}
         \cup {[r |-> BlinkAnswer(FALSE, "PENDING", 0), after |-> Payment("inflight", 0)],
               [r |-> BlinkAnswer(FALSE, "FAILURE", 0), after |-> Payment("failed", 0)],
               [r |-> BlinkAnswer(TRUE, None, 0), after |-> Payment("failed", 0)],
               [r |-> BlinkAnswer(TRUE, None, 0), after |-> Payment("inflight", 0)]}

\* the invoices of the quotes handed to pay_invoice: not decodable, without
\* amount, of the quote's amount, of twice the quote's amount
Bolt11s(quote) ==
    {<<>>, <<[amount_msat |-> 0]>>, Bolt11(quote),
     <<[amount_msat |-> 2 * quote.amount * 1000]>>}

\* the request reaches the node
Sent(quote, bolt11) ==
    bolt11 # <<>> /\ bolt11[1].amount_msat = quote.amount * 1000

\* CoreLightningRestWallet.pay_invoice is called and answers
cln_pay_invoice(w) ==
    /\ \E bolt11 \in Bolt11s(melt_quotes), o \in PayOutcomes(melt_quotes) :
          /\ payres' = [payres EXCEPT ![w] =
                 CoreLightningRestWallet_pay_invoice(melt_quotes, bolt11, FALSE, o.r)]
          /\ ln_payment' = IF Sent(melt_quotes, bolt11) THEN o.after ELSE ln_payment
    /\ UNCHANGED <<db, quote_lock, ln_invoice_paid, tx, pc, req, tasks, idx, tries, res>>

\* BlinkWallet.pay_invoice is called and answers
blink_pay_invoice(w) ==
    /\ \E o \in BlinkOutcomes :
          /\ payres' = [payres EXCEPT ![w] = BlinkWallet_pay_invoice(o.r)]
          /\ ln_payment' = o.after
    /\ UNCHANGED <<db, quote_lock, ln_invoice_paid, tx, pc, req, tasks, idx, tries, res>>

\* CoreLightningRestWallet.get_payment_status is called and answers
cln_get_payment_status(w) ==
    /\ \E r \in ListPays : payres' = [payres EXCEPT ![w] = get_payment_status(r)]
    /\ UNCHANGED <<db, quote_lock, backend, tx, pc, req, tasks, idx, tries, res>>

NextBackend ==
    \/ \E w \in Workers :
          \/ cln_pay_invoice(w)
          \/ blink_pay_invoice(w)
          \/ cln_get_payment_status(w)
    \/ payment_resolves

SpecBackend == Init /\ [][NextBackend]_vars

\* ------------------------------------------------- crash and restart recovery

\* the process dies while the melt quote is PENDING: the handlers in flight are
\* gone, their open transactions are rolled back and their locks released; the
\* committed tables and the node's payment survive.  After the restart the
\* pending quote is picked up by check_pending_melt.
crash ==
    /\ melt_quotes.state = "PENDING"
    /\ \E w \in Workers : pc[w] # "done"
    /\ tx' = [w \in Workers |-> NoTx]
    /\ pc' = [w \in Workers |-> "done"]
    /\ idx' = [w \in Workers |-> 0]
    /\ tries' = [w \in Workers |-> 0]
    /\ payres' = [w \in Workers |-> NoPayment]
    /\ res' = [w \in Workers |-> "crashed"]
    /\ quote_lock' = [q \in QuoteIds |-> None]
    /\ UNCHANGED <<db, backend, req, tasks>>

\* the steps of the melt handler of w after the request has arrived
melt_step(w) ==
    \/ acquire_lock(w)
    \/ set_pending(w)
    \/ melt_load(w)
    \/ melt_verify(w)
    \/ melt_commit(w)
    \/ melt_pay(w)
    \/ melt_settle(w)

NextRecovery ==
    \/ \E w \in Workers : melt_begin(w) \/ melt_step(w)
    \/ payment_resolves
    \/ check_pending_melt
    \/ crash

\* a handler that can take a step takes it; the reconciliation task polls the
\* backend again and again, so it runs if it can run infinitely often, and the
\* backend answers the poll
SpecRecovery ==
    /\ Init /\ [][NextRecovery]_vars
    /\ \A w \in Workers : WF_vars(melt_step(w))
    /\ SF_vars(check_pending_melt)

\* ------------------------------------------------------ internal settlement

\* melt_quote for the invoice of a mint quote of this mint: the amount is the
\* invoice's, and no fee is reserved while that mint quote is unpaid
melt_quote(mint_quote) ==
    [checking_id |-> MintQuoteId,
     amount |-> mint_quote.amount,
     fee_reserve |-> IF ~mint_quote.paid /\ ~mint_quote.issued
                     THEN 0 ELSE MeltQuoteFeeReserve,
     state |-> "UNPAID", change |-> <<>>]

\* (variant: the settlement marks the melt quote only)
melt_internal_melt_quote_only(w) ==
    /\ pc[w] = "melt_commit"
    /\ IsInternal
    /\ LET u == invalidate_proofs(proofs_used, tx[w], req[w].inputs)
       IN /\ ~u.raised
          /\ CommitTables([u.rows EXCEPT
                 !.mq = <<[state |-> "PAID", change |-> <<>>]>>])
          /\ Finish(w, "paid")
          /\ UNCHANGED backend

\* the internal short-circuit of melt: in the transaction that holds the lock
\* of the melt quote the inputs are spent, the mint quote is marked PAID and
\* the melt quote PAID; the backend is not called
melt_internal(w) ==
    /\ pc[w] = "melt_commit"
    /\ IsInternal
    /\ LET u == invalidate_proofs(proofs_used, tx[w], req[w].inputs)
       IN IF u.raised
          THEN Fail(w, "Token already spent.")
          ELSE /\ CommitTables([u.rows EXCEPT
                      !.paid = <<TRUE>>,
                      !.mq = <<[state |-> "PAID", change |-> <<>>]>>])
               /\ Finish(w, "paid")
               /\ UNCHANGED backend

\* the state after melt_quote was asked for the invoice of the mint quote
InitInternal ==
    /\ proofs_used = ZeroRows
    /\ proofs_pending = ZeroRows
    /\ promises = NoPromises
    /\ invoices = [amount |-> MintQuoteAmount, issued |-> FALSE, paid |-> FALSE]
    /\ mint_quotes = <<>>
    /\ melt_quotes = melt_quote(invoices)
    /\ quote_lock = [q \in QuoteIds |-> None]
    /\ ln_invoice_paid = FALSE
    /\ ln_payment = Payment("none", 0)
    /\ tx = [w \in Workers |-> NoTx]
    /\ pc = [w \in Workers |-> "done"]
    /\ req = [w \in Workers |-> NoRequest]
    /\ idx = [w \in Workers |-> 0]
    /\ tries = [w \in Workers |-> 0]
    /\ payres = [w \in Workers |-> NoPayment]
    /\ res = [w \in Workers |-> None]
    /\ InitTasks

NextInternal ==
    \/ \E w \in Workers : melt_begin(w) \/ melt_step(w) \/ melt_internal(w)
    \/ \E w \in Workers :
          \/ mint_begin(w)
          \/ mint_check(w)
          \/ mint_status(w)
          \/ mint_verify(w)
          \/ store_promises(w)
          \/ mint_commit(w)
    \/ invoice_paid
    \/ payment_resolves
    \/ check_pending_melt

SpecInternal == InitInternal /\ [][NextInternal]_vars

\* ------------------------------------------------------------------ restore

\* The outputs a wallet replays to /v1/restore: the outputs of the swaps, an
\* output with another amount than the one signed, an output never signed.
RestoreRequests ==
    { Request("restore", None, <<>>,
              <<BlindedMessage("b1", 64), BlindedMessage("b2", 2)>>),
      Request("restore", None, <<>>, <<BlindedMessage("b1", 2)>>),
      Request("restore", None, <<>>,
              <<BlindedMessage("b3", 0), BlindedMessage("b2", 2)>>),
      Request("restore", None, <<>>, <<>>) }

\* (variant: an output that was never signed is signed on restore)
ledger_restore_signs(committed, outputs) ==
    [outputs |-> outputs,
     promises |-> [i \in 1..Len(outputs) |->
                     LET p == get_promise(committed, NoPromises, outputs[i].B_)
                     IN IF p # <<>> THEN p[1]
                        ELSE _generate_promise(outputs[i].id, outputs[i].amount,
                                               outputs[i].B_)]]

\* Ledger.restore: for each output, in order, the signature get_promise finds
\* for its B_, and the output itself; nothing for an output without one.
RECURSIVE ledger_restore(_, _)
ledger_restore(committed, outputs) ==
    IF outputs = <<>> THEN [outputs |-> <<>>, promises |-> <<>>]
    ELSE LET rest == ledger_restore(committed, Tail(outputs))
             promise == get_promise(committed, NoPromises, Head(outputs).B_)
         IN IF promise = <<>> THEN rest
            ELSE [outputs |-> <<Head(outputs)>> \o rest.outputs,
                  promises |-> promise \o rest.promises]

restore_begin(w) ==
    \E r \in RestoreRequests : Begin(w, r) /\ Goto(w, "restore", 1)

\* POST /v1/restore: the response is PostRestoreResponse(outputs, promises) of
\* ledger.restore(payload.outputs)
restore(w) ==
    /\ pc[w] = "restore"
    /\ IF req[w].outputs = <<>>
       THEN Fail(w, "no outputs provided.")
       ELSE /\ Len(ledger_restore(promises, req[w].outputs).promises)
                   <= Len(req[w].outputs)
            /\ Finish(w, "ok")
            /\ UNCHANGED <<db, backend>>

\* swaps sign outputs, wallets replay outputs to restore
NextRestore ==
    \E w \in Workers :
        \/ swap_begin(w)
        \/ set_pending(w)
        \/ swap_verify(w)
        \/ store_promises(w)
        \/ swap_invalidate(w)
        \/ restore_begin(w)
        \/ restore(w)

SpecRestore == Init /\ [][NextRestore]_vars

\* ------------------------------------------------------------ keyset ids

\* a keyset id the mint does not have
UnknownKeyset == "k9"

WithId(x, id) == [x EXCEPT !.id = id]

\* Batches over keysets of two units: k1 (sat) and k2 (usd).
UnitRequests ==
    { Request("swap", None, <<p1, WithId(p2, "k2")>>,
              <<BlindedMessage("b1", 64), BlindedMessage("b2", 2)>>),
      Request("swap", None, <<p2>>, <<WithId(BlindedMessage("b1", 2), "k2")>>),
      Request("swap", None, <<WithId(p2, "k2")>>,
              <<WithId(BlindedMessage("b1", 2), "k2")>>),
      Request("melt", MeltQuoteId, <<p1, WithId(p2, "k2")>>, <<>>),
      Request("melt", MeltQuoteId, <<WithId(p1, "k2"), p2>>,
              <<BlindedMessage("b3", 0)>>) }

\* Batches with inputs of keyset k4, which charges 500 ppk per input: one, two
\* and three such inputs, with and without the fee left out of the outputs.
FeeRequests ==
    { Request("swap", None, <<WithId(p2, "k4")>>, <<BlindedMessage("b1", 1)>>),
      Request("swap", None, <<WithId(p2, "k4")>>, <<BlindedMessage("b1", 2)>>),
      Request("swap", None, <<p1, WithId(p2, "k4")>>,
              <<BlindedMessage("b1", 64), BlindedMessage("b2", 1)>>),
      Request("swap", None, <<WithId(p1, "k4"), WithId(p2, "k4")>>,
              <<BlindedMessage("b1", 64), BlindedMessage("b2", 1)>>),
      Request("swap", None,
              <<WithId(p1, "k4"), WithId(p2, "k4"), WithId(Proof("s3", 1), "k4")>>,
              <<BlindedMessage("b1", 64), BlindedMessage("b2", 1)>>),
      Request("swap", None,
              <<WithId(p1, "k4"), WithId(p2, "k4"), WithId(Proof("s3", 1), "k4")>>,
              <<BlindedMessage("b1", 64), BlindedMessage("b2", 2)>>) }

\* Batches with two inputs of one secret: the same proof twice, and proofs
\* that differ in amount or in keyset id.
DuplicateRequests ==
    { Request("swap", None, <<p2, p2>>, <<BlindedMessage("b1", 4)>>),
      Request("swap", None, <<p2, Proof("s2", 64)>>,
              <<BlindedMessage("b1", 64), BlindedMessage("b2", 2)>>),
      Request("swap", None, <<p2, WithId(p2, "k3")>>, <<BlindedMessage("b1", 4)>>),
      Request("melt", MeltQuoteId, <<p1, p1>>, <<>>),
      Request("melt", MeltQuoteId, <<p1, WithId(Proof("s1", 2), "k3")>>,
              <<BlindedMessage("b3", 0)>>) }

\* Batches with inputs or outputs of the inactive keyset k3, with no outputs,
\* with outputs of two keysets and with one B_ twice.
OutputRequests ==
    { Request("swap", None, <<WithId(p2, "k3")>>, <<BlindedMessage("b1", 2)>>),
      Request("swap", None, <<p2>>, <<WithId(BlindedMessage("b1", 2), "k3")>>),
      Request("swap", None, <<p2>>, <<>>),
      Request("swap", None, <<p1, p2>>,
              <<BlindedMessage("b1", 33), BlindedMessage("b1", 33)>>),
      Request("mint", MintQuoteId, <<>>,
              <<WithId(BlindedMessage("b1", 2), "k3")>>),
      Request("mint", MintQuoteId, <<>>,
              <<BlindedMessage("b1", 1), BlindedMessage("b1", 1)>>),
      Request("mint", MintQuoteId, <<>>,
              <<BlindedMessage("b1", 1), WithId(BlindedMessage("b2", 1), "k4")>>),
      Request("mint", MintQuoteId, <<>>, <<>>),
      Request("melt", MeltQuoteId, <<p1, p2>>,
              <<WithId(BlindedMessage("b3", 0), "k3")>>),
      Request("melt", MeltQuoteId, <<WithId(p1, "k3"), WithId(p2, "k3")>>,
              <<BlindedMessage("b3", 0)>>) }

\* Batches with the unknown keyset id at each position of the inputs and of
\* the outputs, and batches of the mint's own keyset.
KeysetRequests ==
    { Request("swap", None, <<WithId(p2, UnknownKeyset)>>,
              <<BlindedMessage("b1", 2)>>),
      Request("swap", None, <<p1, WithId(p2, UnknownKeyset)>>,
              <<BlindedMessage("b1", 64), BlindedMessage("b2", 2)>>),
      Request("swap", None, <<p2>>,
              <<WithId(BlindedMessage("b1", 2), UnknownKeyset)>>),
      Request("swap", None, <<p1, p2>>,
              <<BlindedMessage("b1", 64),
                WithId(BlindedMessage("b2", 2), UnknownKeyset)>>),
      Request("swap", None, <<p2>>, <<BlindedMessage("b1", 2)>>),
      Request("mint", MintQuoteId, <<>>,
              <<WithId(BlindedMessage("b1", 2), UnknownKeyset)>>),
      Request("mint", MintQuoteId, <<>>,
              <<BlindedMessage("b1", 1),
                WithId(BlindedMessage("b2", 1), UnknownKeyset)>>),
      Request("mint", MintQuoteId, <<>>, <<BlindedMessage("b1", 2)>>),
      Request("melt", MeltQuoteId, <<WithId(p1, UnknownKeyset), p2>>, <<>>),
      Request("melt", MeltQuoteId, <<p1, WithId(p2, UnknownKeyset)>>,
              <<BlindedMessage("b3", 0)>>),
      Request("melt", MeltQuoteId, <<p1, p2>>,
              <<WithId(BlindedMessage("b3", 0), UnknownKeyset)>>),
      Request("melt", MeltQuoteId, <<p1, p2>>, <<BlindedMessage("b3", 0)>>) }
    \cup UnitRequests \cup FeeRequests \cup DuplicateRequests
    \cup OutputRequests

\* the verification of a batch as its handler runs it (swap_verify,
\* mint_verify, melt_verify): "ok" or the failure
verify_batch(committed, r) ==
    IF r.kind = "swap"
    THEN verify_inputs_and_outputs(committed, NoPromises, r.inputs, <<r.outputs>>)
    ELSE IF r.kind = "mint"
    THEN _verify_outputs(committed, NoPromises, r.outputs, FALSE)
    ELSE LET v == verify_inputs_and_outputs(committed, NoPromises, r.inputs, <<>>)
         IN IF v # "ok" \/ r.outputs = <<>> THEN v
            ELSE _verify_outputs(committed, NoPromises, r.outputs, TRUE)

verify_begin(w) ==
    \E r \in KeysetRequests : Begin(w, r) /\ Goto(w, "verify", 1)

\* the batch is verified and the request answered with the outcome
verify(w) ==
    /\ pc[w] = "verify"
    /\ LET v == verify_batch(promises, req[w])
       IN IF v # "ok" THEN Fail(w, v)
          ELSE /\ Finish(w, "ok")
               /\ UNCHANGED <<db, backend>>

NextKeysets ==
    \E w \in Workers :
        \/ verify_begin(w)
        \/ verify(w)

SpecKeysets == Init /\ [][NextKeysets]_vars

\* --------------------------------------------------- event bus and listener

\* The websocket clients.  c1 and c2 subscribe to the mint quote, c3 to
\* nothing.
EventClients == {"c1", "c2", "c3"}
\* client.subscriptions.get(event.kind, {}).get(event.identifier, [])
subscriptions(client, event) ==
    IF client \in {"c1", "c2"} /\ event.identifier = MintQuoteId
    THEN <<"sub">> ELSE <<>>

\* LedgerEventManager.MAX_CLIENTS (1000 in the source)
MAX_CLIENTS == 2

\* (variant: a subscriber is added whatever the number of subscribers)
add_client_unbounded(clients, client) ==
    [clients |-> Append(clients, client), ret |-> True]

\* LedgerEventManager.add_client: the list after the call and what it returns
add_client(clients, client) ==
    IF Len(clients) >= MAX_CLIENTS
    THEN [clients |-> clients, ret |-> False]
    ELSE [clients |-> Append(clients, client), ret |-> True]

\* list.remove: the list without the first occurrence of x
RECURSIVE list_remove(_, _)
list_remove(seq, x) ==
    IF seq = <<>> THEN <<>>
    ELSE IF Head(seq) = x THEN Tail(seq)
    ELSE <<Head(seq)>> \o list_remove(Tail(seq), x)

\* LedgerEventManager.remove_client: list.remove raises ValueError for a
\* client that is not in the list
remove_client(clients, client) ==
    IF client \in Range(clients)
    THEN [clients |-> list_remove(clients, client), ret |-> None]
    ELSE [clients |-> clients, ret |-> "ValueError"]

\* a websocket connects and registers its (new) client
client_connects(c) ==
    /\ c \notin Range(events.clients)
    /\ LET r == add_client(events.clients, c)
       IN events' = [events EXCEPT !.clients = r.clients,
                                   !.call = "add_client", !.ret = r.ret]
    /\ UNCHANGED <<db, quote_lock, backend, local, listener, ln_paid, redis>>

\* a websocket is closed
client_disconnects(c) ==
    /\ LET r == remove_client(events.clients, c)
       IN events' = [events EXCEPT !.clients = r.clients,
                                   !.call = "remove_client", !.ret = r.ret,
                                   !.since_submit = @ \ {c}]
    /\ UNCHANGED <<db, quote_lock, backend, local, listener, ln_paid, redis>>

\* the event of a mint quote: the quote as read from the database
MintQuoteEvent(invoice) ==
    [kind |-> "bolt11_mint_quote", identifier |-> MintQuoteId,
     paid |-> invoice.paid, issued |-> invoice.issued]

\* the loop of submit from position i of the list on: the position of the next
\* client with a subscription for the event, 0 if there is none
next_send(clients, i, event) ==
    LET js == {j \in i..Len(clients) : subscriptions(clients[j], event) # <<>>}
    IN IF js = {} THEN 0 ELSE CHOOSE j \in js : \A k \in js : j <= k

\* (variant: submit hands the event over and returns without awaiting the
\* subscribers)
submit_no_await(ev, event) ==
    [ev EXCEPT !.submitted = Append(@, event)]

\* LedgerEventManager.submit up to its first await: the event manager with the
\* send to the first subscriber of the event under way, if there is one
\* (since_submit records the clients registered without interruption since
\* the submission began; the program does not read it)
submit(ev, event) ==
    LET j == next_send(ev.clients, 1, event)
    IN [ev EXCEPT !.submitted = Append(@, event),
                  !.since_submit = Range(ev.clients),
                  !.submit = IF j = 0 THEN <<>>
                             ELSE <<[event |-> event, i |-> j,
                                     client |-> ev.clients[j]]>>]

\* an invoice of the node that belongs to no quote is paid
other_invoice_paid ==
    /\ ExternalInvoice \notin Range(ln_paid)
    /\ ln_paid' = Append(ln_paid, ExternalInvoice)
    /\ UNCHANGED <<db, quote_lock, backend, local, events, listener, redis>>

\* paid_invoices_stream before its loop: /v1/listinvoices gives the last
\* pay_index, or fails (connection error, error status, error in the answer)
\* and the exception leaves the generator and invoice_listener
stream_start ==
    /\ listener.pc = "start"
    /\ \/ listener' = [listener EXCEPT !.pc = "wait",
                                        !.last_pay_index = Len(ln_paid),
                                        !.first_pay_index = Len(ln_paid)]
       \/ listener' = [listener EXCEPT !.pc = "ended"]
    /\ UNCHANGED <<db, quote_lock, backend, local, events, ln_paid, redis>>

\* /v1/waitanyinvoice answers with the next paid invoice after
\* last_pay_index: its payment hash is yielded to invoice_listener
\* (first_pay_index and yielded record where the stream began and what it has
\* yielded; the program does not read them)
stream_yield ==
    /\ listener.pc = "wait"
    /\ listener.last_pay_index < Len(ln_paid)
    /\ listener' = [listener EXCEPT
                       !.pc = "dispatch",
                       !.last_pay_index = @ + 1,
                       !.checking_id = ln_paid[listener.last_pay_index + 1],
                       !.yielded = Append(@, ln_paid[listener.last_pay_index + 1])]
    /\ UNCHANGED <<db, quote_lock, backend, local, events, ln_paid, redis>>

\* the connection is lost or the node answers with an error: the exception is
\* caught inside the loop
stream_disconnect ==
    /\ listener.pc = "wait"
    /\ listener' = [listener EXCEPT !.pc = "backoff"]
    /\ UNCHANGED <<db, quote_lock, backend, local, events, ln_paid, redis>>

\* (variant: the loop connects again and asks for the invoices from the first
\* pay index on)
stream_reconnect_from_zero ==
    /\ listener.pc = "backoff"
    /\ listener' = [listener EXCEPT !.pc = "wait", !.last_pay_index = 0]
    /\ UNCHANGED <<db, quote_lock, backend, local, events, ln_paid, redis>>

\* asyncio.sleep(0.02) is over: the loop connects again
stream_reconnect ==
    /\ listener.pc = "backoff"
    /\ listener' = [listener EXCEPT !.pc = "wait"]
    /\ UNCHANGED <<db, quote_lock, backend, local, events, ln_paid, redis>>

\* get_mint_quote(checking_id): <<>> for None
get_mint_quote(checking_id) ==
    IF checking_id = MintQuoteId THEN <<invoices>> ELSE <<>>

\* LedgerTasks.invoice_callback_dispatcher
invoice_callback_dispatcher ==
    /\ listener.pc = "dispatch"
    /\ LET quote == get_mint_quote(listener.checking_id)
       IN IF quote = <<>>
          THEN /\ listener' = [listener EXCEPT !.pc = "wait"]
               /\ UNCHANGED events
          ELSE LET ev == submit(events, MintQuoteEvent(quote[1]))
               IN /\ events' = ev
                  /\ listener' = [listener EXCEPT
                         !.pc = IF ev.submit = <<>> THEN "wait" ELSE "submit"]
    /\ UNCHANGED <<db, quote_lock, backend, local, ln_paid, redis>>

\* the subscriber has taken the message: `await client._send_obj` returns and
\* the loop of submit goes on to the next subscriber or ends
send_completes ==
    /\ events.submit # <<>>
    /\ LET cur == events.submit[1]
           j == next_send(events.clients, cur.i + 1, cur.event)
       IN /\ events' = [events EXCEPT
                 !.sent = Append(@, cur.client),
                 !.submit = IF j = 0 THEN <<>>
                            ELSE <<[cur EXCEPT !.i = j,
                                               !.client = events.clients[j]]>>]
          /\ listener' = [listener EXCEPT
                 !.pc = IF j = 0 THEN "wait" ELSE @]
    /\ UNCHANGED <<db, quote_lock, backend, local, ln_paid, redis>>

\* the steps of the listener task that do not wait for anyone else
listener_step ==
    \/ stream_start
    \/ stream_yield
    \/ stream_reconnect
    \/ invoice_callback_dispatcher

NextEvents ==
    \/ \E c \in EventClients : client_connects(c) \/ client_disconnects(c)
    \/ invoice_paid
    \/ other_invoice_paid
    \/ listener_step
    \/ stream_disconnect
    \/ send_completes

SpecEvents == Init /\ [][NextEvents]_vars

\* The listener task runs whenever it can, and of the answers of the node to
\* /v1/waitanyinvoice not all are failures.  Nothing is assumed of the
\* subscribers.
SpecEventsFair ==
    /\ SpecEvents
    /\ WF_vars(listener_step)
    /\ SF_vars(stream_yield)

\* ----------------------------------------------- blank outputs of the wallet

\* the fee reserve of the example of NUT-08
NUT08FeeReserve == 1000

\* math.ceil(math.log2(n)) for n >= 1
RECURSIVE ceil_log2(_)
ceil_log2(n) == IF n <= 1 THEN 0 ELSE 1 + ceil_log2((n + 1) \div 2)

\* (variant: the logarithm is rounded down)
calculate_number_of_blank_outputs_floor(fee_reserve_sat) ==
    IF fee_reserve_sat < 0 THEN [raised |-> TRUE, ret |-> None]
    ELSE IF fee_reserve_sat = 0 THEN [raised |-> FALSE, ret |-> 0]
    ELSE LET RECURSIVE floor_log2(_)
             floor_log2(n) == IF n <= 1 THEN 0 ELSE 1 + floor_log2(n \div 2)
             n == floor_log2(fee_reserve_sat)
         IN [raised |-> FALSE, ret |-> IF n > 1 THEN n ELSE 1]

\* calculate_number_of_blank_outputs: the assertion fails for a negative fee
\* reserve, no blank output for no fee reserve, else
\* max(ceil(log2(fee_reserve_sat)), 1)
calculate_number_of_blank_outputs(fee_reserve_sat) ==
    IF fee_reserve_sat < 0 THEN [raised |-> TRUE, ret |-> None]
    ELSE IF fee_reserve_sat = 0 THEN [raised |-> FALSE, ret |-> 0]
    ELSE LET n == ceil_log2(fee_reserve_sat)
         IN [raised |-> FALSE, ret |-> IF n > 1 THEN n ELSE 1]

\* The melts of a wallet: the fee reserve of the quote and the change the
\* mint owes after the payment, at most the fee reserve.
BlankRequests ==
    LET reserves == (-1..MaxFeeReserve) \cup {NUT08FeeReserve}
        changes(F) == IF F < 1 THEN {0}
                      ELSE {c \in (1..MaxFeeReserve)
                                  \cup {NUT08FeeReserve \div 2 + 11, NUT08FeeReserve} :
                              c <= F}
    IN UNION { { [kind |-> "blank", quote |-> MeltQuoteId, inputs |-> <<>>,
                  outputs |-> <<>>, fee_reserve_sat |-> F, change |-> c,
                  signed |-> <<>>] : c \in changes(F) } : F \in reserves }

blank_begin(w) ==
    \E r \in BlankRequests : Begin(w, r) /\ Goto(w, "blank_outputs", 1)

\* the wallet adds the blank outputs (amount 0) to its melt request
blank_outputs(w) ==
    /\ pc[w] = "blank_outputs"
    /\ LET n == calculate_number_of_blank_outputs(req[w].fee_reserve_sat)
       IN IF n.raised THEN Fail(w, AssertionError)
          ELSE /\ req' = [req EXCEPT ![w].outputs =
                              [i \in 1..n.ret |-> BlindedMessage(<<"blank", i>>, 0)]]
               /\ Goto(w, "blank_sign", 1)
               /\ UNCHANGED <<db, backend, quote_lock, tx, payres, res, tasks>>

\* the mint signs the blank outputs for the change
blank_sign(w) ==
    /\ pc[w] = "blank_sign"
    /\ req' = [req EXCEPT ![w].signed = change_promises(req[w].outputs, req[w].change)]
    /\ pc' = [pc EXCEPT ![w] = "done"]
    /\ res' = [res EXCEPT ![w] = "ok"]
    /\ UNCHANGED <<db, backend, quote_lock, tx, idx, tries, payres, tasks>>

NextBlank ==
    \E w \in Workers :
        \/ blank_begin(w)
        \/ blank_outputs(w)
        \/ blank_sign(w)

SpecBlank == Init /\ [][NextBlank]_vars

\* ---------------------------------------------------------- proof-state check

\* SELECT * from proofs_pending: the secrets of the rows
get_proofs_pending(committed, own) ==
    {s \in Secrets : committed[s] + own[s] > 0}

\* CheckSpendableRequest: the proofs whose state is asked for
CheckRequests ==
    { [kind |-> "check", quote |-> None, inputs |-> ps, outputs |-> <<>>,
       spendable |-> <<>>, pending |-> <<>>] : ps \in {<<p1>>, <<p2>>, <<p1, p2>>} }

check_begin(w) ==
    \E r \in CheckRequests : Begin(w, r) /\ Goto(w, "check_spendable", 1)

\* first round trip: the committed spent ledger is read
check_spendable(w) ==
    /\ pc[w] = "check_spendable"
    /\ req' = [req EXCEPT ![w].spendable =
                  [i \in 1..Len(req[w].inputs) |->
                      req[w].inputs[i].secret \notin get_secrets_used(proofs_used, ZeroRows)]]
    /\ Goto(w, "check_pending", 1)
    /\ UNCHANGED <<db, backend, quote_lock, tx, payres, res, tasks>>

\* second round trip: the committed pending ledger is read; the two lists are
\* the CheckSpendableResponse
check_pending(w) ==
    /\ pc[w] = "check_pending"
    /\ req' = [req EXCEPT ![w].pending =
                  [i \in 1..Len(req[w].inputs) |->
                      req[w].inputs[i].secret \in get_proofs_pending(proofs_pending, ZeroRows)]]
    /\ pc' = [pc EXCEPT ![w] = "done"]
    /\ res' = [res EXCEPT ![w] = "ok"]
    /\ UNCHANGED <<db, backend, quote_lock, tx, idx, tries, payres, tasks>>

NextCheck ==
    \/ \E w \in Workers :
          \/ check_begin(w)
          \/ check_spendable(w)
          \/ check_pending(w)
          \/ swap_begin(w)
          \/ swap_verify(w)
          \/ store_promises(w)
          \/ swap_invalidate(w)
          \/ melt_begin(w)
          \/ melt_step(w)
    \/ payment_resolves
    \/ check_pending_melt

SpecCheck == Init /\ [][NextCheck]_vars

\* ------------------------------------------------------------------- BDHKE

\* the secret messages of the wallet
Messages == {"s1", "s2", "s3"}
\* secret_msg.encode("utf-8")
encode(secret_msg) ==
    CASE secret_msg = "s1" -> 11 [] secret_msg = "s2" -> 12 [] OTHER -> 13
\* hashlib.sha256(msg).digest(), a residue of the model
sha256(msg) == (5 * msg + 1) % curve_order

\* hash_to_curve: the hash is hashed again until it is the x coordinate of a
\* point
RECURSIVE hash_to_curve(_)
hash_to_curve(message) ==
    LET _hash == sha256(message)
    IN IF _hash \in Points THEN _hash ELSE hash_to_curve(_hash)

\* step1_alice: B_ = Y + r*G (Infinity: the sum is no PublicKey, the call
\* raises)
step1_alice(secret_msg, blinding_factor) ==
    LET Y == hash_to_curve(encode(secret_msg))
    IN point_add(Y, pubkey(blinding_factor))

\* step3_alice: C = C_ - r*A
step3_alice(C_, r, A) == point_sub(C_, mult(A, r))

\* b_dhke.verify: C == a*Y
b_dhke_verify(a, C, secret_msg) ==
    LET Y == hash_to_curve(encode(secret_msg))
    IN C = mult(Y, a)

\* A wallet has a secret signed by the mint: the secret, the blinding factor r
\* of Alice and the private key a of Bob.
BDHKERequests ==
    { [kind |-> "bdhke", quote |-> None, inputs |-> <<>>, outputs |-> <<>>,
       secret_msg |-> m, r |-> r, a |-> a,
       B_ |-> Infinity, C_ |-> Infinity, C |-> Infinity, verified_by |-> {}] :
      m \in Messages, r \in PrivateKeys, a \in PrivateKeys }

bdhke_begin(w) ==
    \E r \in BDHKERequests : Begin(w, r) /\ Goto(w, "step1_alice", 1)

\* Alice blinds the secret
bdhke_step1(w) ==
    /\ pc[w] = "step1_alice"
    /\ LET B_ == step1_alice(req[w].secret_msg, req[w].r)
       IN IF B_ = Infinity THEN Fail(w, "Exception")
          ELSE /\ req' = [req EXCEPT ![w].B_ = B_]
               /\ Goto(w, "step2_bob", 1)
               /\ UNCHANGED <<db, backend, quote_lock, tx, payres, res, tasks>>

\* Bob signs the blinded message
bdhke_step2(w) ==
    /\ pc[w] = "step2_bob"
    /\ req' = [req EXCEPT ![w].C_ = step2_bob(req[w].B_, req[w].a)]
    /\ Goto(w, "step3_alice", 1)
    /\ UNCHANGED <<db, backend, quote_lock, tx, payres, res, tasks>>

\* Alice unblinds the signature with A = a*G; the proof (C, secret) is
\* verified with every private key
bdhke_step3(w) ==
    /\ pc[w] = "step3_alice"
    /\ LET C == step3_alice(req[w].C_, req[w].r, pubkey(req[w].a))
       IN req' = [req EXCEPT ![w].C = C,
                             ![w].verified_by =
                                 {k \in PrivateKeys : b_dhke_verify(k, C, req[w].secret_msg)}]
    /\ pc' = [pc EXCEPT ![w] = "done"]
    /\ res' = [res EXCEPT ![w] = "ok"]
    /\ UNCHANGED <<db, backend, quote_lock, tx, idx, tries, payres, tasks>>

NextBDHKE ==
    \E w \in Workers :
        \/ bdhke_begin(w)
        \/ bdhke_step1(w)
        \/ bdhke_step2(w)
        \/ bdhke_step3(w)

SpecBDHKE == Init /\ [][NextBDHKE]_vars

\* ------------------------------------------------------- secret-commitment tree

\* The leaf hashes; a hash of the model is a number, the hash of a pair a
\* number no leaf hash and no other pair has
LeafHashes == {1, 2}

\* SHA256(a || b): the pairing of a and b, above every leaf hash
sha256_concat(a, b) == ((a + b) * (a + b + 1)) \div 2 + b + 3

\* (variant: the pair is hashed in the order given)
sorted_merkle_hash_unsorted(left, right) == sha256_concat(left, right)

\* sorted_merkle_hash: H(a, b) = SHA256(min(a, b) || max(a, b))
sorted_merkle_hash(left, right) ==
    IF left <= right THEN sha256_concat(left, right)
    ELSE sha256_concat(right, left)

\* one level up: the hashes of the pairs, a last hash without sibling is
\* carried up
RECURSIVE merkle_level(_)
merkle_level(hashes) ==
    IF Len(hashes) <= 1 THEN hashes
    ELSE <<sorted_merkle_hash(hashes[1], hashes[2])>>
         \o merkle_level(SubSeq(hashes, 3, Len(hashes)))

RECURSIVE merkle_climb(_, _, _)
merkle_climb(hashes, track, branch) ==
    IF Len(hashes) = 1 THEN [root |-> hashes[1], branch |-> branch]
    ELSE LET sibling == IF track % 2 = 0 THEN <<hashes[track - 1]>>
                        ELSE IF track + 1 <= Len(hashes) THEN <<hashes[track + 1]>>
                        ELSE <<>>
         IN merkle_climb(merkle_level(hashes), (track + 1) \div 2,
                         branch \o sibling)

\* merkle_root(leaf_hashes, track_branch): the root and the hashes of the
\* branch that leads to leaf_hashes[track_branch] (counted from 1)
merkle_root(leaf_hashes, track_branch) ==
    merkle_climb(leaf_hashes, track_branch, <<>>)

RECURSIVE merkle_fold(_, _)
merkle_fold(h, proof) ==
    IF proof = <<>> THEN h
    ELSE merkle_fold(sorted_merkle_hash(h, Head(proof)), Tail(proof))

\* merkle_verify: the leaf hash folded with the branch is the root
merkle_verify(root, leaf_hash, proof) == merkle_fold(leaf_hash, proof) = root

\* the lists of leaf hashes
LeafLists == UNION {[1..n -> LeafHashes] : n \in 1..MaxLeafs}

\* the branches that merkle_root returns for the lists of leaf hashes
AllBranches ==
    UNION { {merkle_root(l, j).branch : j \in 1..Len(l)} : l \in LeafLists }

\* A wallet commits to a list of leaves and proves the leaf at an index.
MerkleRequests ==
    UNION { { [kind |-> "merkle", quote |-> None, inputs |-> <<>>,
               outputs |-> <<>>, leafs |-> l, index |-> i,
               root |-> 0, branch |-> <<>>, accepted |-> {}] :
              i \in 1..Len(l) } : l \in LeafLists }

merkle_begin(w) ==
    \E r \in MerkleRequests : Begin(w, r) /\ Goto(w, "merkle_root", 1)

\* the wallet computes the root and the branch of its leaf
merkle_commit(w) ==
    /\ pc[w] = "merkle_root"
    /\ LET m == merkle_root(req[w].leafs, req[w].index)
       IN req' = [req EXCEPT ![w].root = m.root, ![w].branch = m.branch]
    /\ Goto(w, "merkle_verify", 1)
    /\ UNCHANGED <<db, backend, quote_lock, tx, payres, res, tasks>>

\* the mint verifies the leaf against the root, with the branch of the wallet
\* and with every other branch
merkle_check(w) ==
    /\ pc[w] = "merkle_verify"
    /\ LET leaf == req[w].leafs[req[w].index]
       IN /\ req' = [req EXCEPT ![w].accepted =
                        {b \in AllBranches : merkle_verify(req[w].root, leaf, b)}]
          /\ pc' = [pc EXCEPT ![w] = "done"]
          /\ res' = [res EXCEPT ![w] =
                        IF merkle_verify(req[w].root, leaf, req[w].branch)
                        THEN "ok"
                        ELSE "validation of input spending conditions failed."]
    /\ UNCHANGED <<db, backend, quote_lock, tx, idx, tries, payres, tasks>>

NextMerkle ==
    \E w \in Workers :
        \/ merkle_begin(w)
        \/ merkle_commit(w)
        \/ merkle_check(w)

SpecMerkle == Init /\ [][NextMerkle]_vars

\* ------------------------------------------------------- the response cache

\* what the handler of a cached route may return
Responses == {"response 1", "response 2"}

\* result.json() and json.loads(resp)
json_dumps(result) == [json |-> result]
json_loads(resp) == resp.json

\* a call of a cached route: key = request.url.path + payload.json()
CachedRequests ==
    { [kind |-> "cached", quote |-> None, inputs |-> <<>>, outputs |-> <<>>,
       key |-> k, calls |-> 0, result |-> None] : k \in CacheKeys }

\* the wrapper returns r, or raises r
cache_return(w, r) ==
    /\ pc' = [pc EXCEPT ![w] = "done"]
    /\ res' = [res EXCEPT ![w] = r]
    /\ UNCHANGED <<tx, idx, tries, payres>>

cache_begin(w) ==
    \E r \in CachedRequests : Begin(w, r) /\ Goto(w, "cache_exists", 0)

\* await self.redis.exists(key)
cache_exists(w) ==
    /\ pc[w] = "cache_exists"
    /\ IF redis[req[w].key] # <<>>
       THEN Goto(w, "cache_get", 0)
       ELSE Goto(w, "cache_func", 0)
    /\ UNCHANGED <<db, backend, quote_lock, tx, payres, req, res, tasks>>

\* resp = await self.redis.get(key): the stored response is returned, and an
\* empty answer raises
cache_get(w) ==
    /\ pc[w] = "cache_get"
    /\ IF redis[req[w].key] # <<>>
       THEN cache_return(w, json_loads(redis[req[w].key][1]))
       ELSE cache_return(w, "Found no cached response for key")
    /\ UNCHANGED <<db, backend, quote_lock, req, tasks>>

\* result = await func(request, payload): the handler returns or raises
cache_func(w) ==
    /\ pc[w] = "cache_func"
    /\ \/ \E result \in Responses :
             /\ req' = [req EXCEPT ![w].calls = @ + 1, ![w].result = result]
             /\ Goto(w, "cache_setex", 0)
             /\ UNCHANGED <<tx, payres, res>>
       \/ /\ req' = [req EXCEPT ![w].calls = @ + 1]
          /\ cache_return(w, "handler error")
    /\ UNCHANGED <<db, backend, quote_lock, tasks>>

\* await self.redis.setex(key, expire, result.json()); return result
cache_setex(w) ==
    /\ pc[w] = "cache_setex"
    /\ redis' = [redis EXCEPT ![req[w].key] = <<json_dumps(req[w].result)>>]
    /\ cache_return(w, req[w].result)
    /\ UNCHANGED <<db, backend, quote_lock, req, events, listener, ln_paid>>

\* `expire` seconds after setex the entry is gone
cache_expires ==
    /\ \E k \in CacheKeys :
          /\ redis[k] # <<>>
          /\ redis' = [redis EXCEPT ![k] = <<>>]
    /\ UNCHANGED <<db, backend, quote_lock, local, events, listener, ln_paid>>

NextCache ==
    \/ \E w \in Workers :
          \/ cache_begin(w)
          \/ cache_exists(w)
          \/ cache_get(w)
          \/ cache_func(w)
          \/ cache_setex(w)
    \/ cache_expires

SpecCache == Init /\ [][NextCache]_vars

\* ------------------------------------------------- migration of the invoices

\* m012_migrate_invoices_table, run once when the mint starts with a database
\* of the version before: every row of invoices with out = False is copied to
\* mint_quotes with paid = False and its issued flag
m012_migrate_invoices_table ==
    /\ mint_quotes = <<>>
    /\ \A w \in Workers : pc[w] = "done"
    /\ mint_quotes' = <<[quote |-> MintQuoteId, amount |-> invoices.amount,
                         paid |-> FALSE, issued |-> invoices.issued]>>
    /\ UNCHANGED <<ledgers, invoices, melt_quotes, quote_lock, backend, local, tasks>>

NextMigration ==
    \/ \E w \in Workers :
          \/ mint_begin(w)
          \/ acquire_lock(w)
          \/ mint_check(w)
          \/ mint_status(w)
          \/ mint_verify(w)
          \/ store_promises(w)
          \/ mint_commit(w)
    \/ invoice_paid
    \/ m012_migrate_invoices_table

SpecMigration == Init /\ [][NextMigration]_vars

\* ------------------------------------------------------------------- claims

SwapPositions == {"swap_pending", "swap_store"}
MintPositions == {"mint_lock", "mint_check", "mint_status", "mint_verify", "mint_store"}
MeltPositions == {"melt_lock", "melt_load", "melt_pending", "melt_commit",
                  "melt_pay", "settle_lock", "melt_settle"}

\* the step ends the handler of w
Finishes(w) == pc[w] # "done" /\ pc'[w] = "done"
\* the step is taken by the handler of w
StepOf(w) ==
    pc'[w] # pc[w] \/ tx'[w] # tx[w] \/ idx'[w] # idx[w] \/ tries'[w] # tries[w]
Spent(s) == proofs_used[s] > 0
Succeeded(r) == r \in {"ok", "paid"}

\* C1: a secret of the spent ledger stays there, recorded exactly once, and a
\* request that carries a spent secret is rejected and changes no ledger.
C1_SpentIsFinal ==
    [][ /\ \A s \in Secrets :
              /\ proofs_used'[s] <= 1
              /\ Spent(s) => proofs_used'[s] = proofs_used[s]
        /\ \A w \in Workers :
              (StepOf(w) /\ \E s \in SecretsOf(req[w].inputs) : Spent(s))
                  => /\ ledgers' = ledgers
                     /\ Finishes(w) => ~Succeeded(res'[w]) ]_vars

\* a swap of the spent proof p2 has been rejected
C1_Witness ==
    \E w \in Workers :
        /\ pc[w] = "done" /\ req[w].kind = "swap" /\ req[w].inputs = <<p2>>
        /\ res[w] = "Token already spent."
        /\ proofs_used["s2"] = 1

C3_OneSignaturePerOutput ==
    [][ /\ \A b \in B_s :
              /\ Len(promises'[b]) <= 1
              /\ promises[b] # <<>> => promises'[b] = promises[b]
        /\ \A w \in Workers :
              ( /\ req[w].kind \in {"mint", "swap"} /\ StepOf(w)
                /\ \E i \in 1..Len(req[w].outputs) :
                       promises[req[w].outputs[i].B_] # <<>> )
              => /\ promises' = promises
                 /\ Finishes(w) => res'[w] # "ok" ]_vars

\* a mint that offered a signed blinded message has been rejected for it
C3_Witness ==
    \E w \in Workers :
        /\ pc[w] = "done" /\ req[w].kind = "mint"
        /\ res[w] = "outputs have already been signed before."
        /\ Len(promises[req[w].outputs[1].B_]) = 1

\* C5: no secret is in the pending ledger and in the spent ledger.
C5_PendingSpentDisjoint ==
    \A s \in Secrets : ~(proofs_pending[s] > 0 /\ proofs_used[s] > 0)

\* the inputs of a paid melt have moved from pending to spent
C5_Witness ==
    /\ melt_quotes.state = "PAID"
    /\ \A s \in Secrets : proofs_used[s] = 1 /\ proofs_pending[s] = 0

\* the invoice of the mint quote is paid and the worker o is about to be, or
\* has been, issued its tokens
Wins(o) ==
    /\ req[o].kind = "mint"
    /\ \/ pc[o] = "done" /\ res[o] = "ok"
       \/ pc[o] = "mint_store" /\ idx[o] > Len(req[o].outputs)

AlreadyIssued == "tokens already issued for this invoice."
LockFailed == "failed to acquire database lock"

\* what C4 claims and what holds of all interleavings: the issued flag of a
\* quote is never unset once committed, at most one request at a time is past
\* the issued check, and a mint is committed only for a quote not issued before
C4_IssuedOnce ==
    /\ invoices.issued => invoices'.issued
    /\ \A w \in Workers :
          /\ tx[w].inv # <<>> => ~invoices.issued /\ tx[Other(w)].inv = <<>>
          /\ (pc[w] \in MintPositions /\ Finishes(w) /\ res'[w] = "ok")
                => ~invoices.issued /\ invoices'.issued
          /\ (req[w].kind = "mint" /\ StepOf(w) /\ invoices.issued)
                => promises' = promises

\* C4 (as stated): an issued quote is not issued again, of concurrent mints
\* of a paid quote at most one passes the issued check and is signed for, and
\* every other one fails because the tokens were already issued.
C4_OthersFailAsIssued ==
    [][ /\ C4_IssuedOnce
        /\ \A w \in Workers :
              (pc[w] \in MintPositions /\ Finishes(w) /\ Wins(Other(w)))
                  => res'[w] = AlreadyIssued ]_vars

\* C4 (amended): as stated, but a request that loses against the one being
\* issued fails because the tokens were already issued or because it could
\* not get the lock of the quote; it signs nothing.
C4_OthersFail ==
    [][ /\ C4_IssuedOnce
        /\ \A w \in Workers :
              (pc[w] \in MintPositions /\ Finishes(w) /\ Wins(Other(w)))
                  => /\ res'[w] \in {AlreadyIssued, LockFailed}
                     /\ promises' = promises ]_vars

\* one mint of the paid quote was issued, the other was rejected as issued
C4_Witness ==
    \E w \in Workers :
        /\ ln_invoice_paid /\ invoices.issued
        /\ pc[w] = "done" /\ req[w].kind = "mint" /\ res[w] = "ok"
        /\ pc[Other(w)] = "done" /\ req[Other(w)].kind = "mint"
        /\ res[Other(w)] = AlreadyIssued
        /\ promises[req[Other(w)].outputs[1].B_] = <<>>

\* the step calls pay_invoice for the handler of w
PayStep(w) == pc[w] = "melt_pay" /\ payres'[w] # NoPayment
\* the step releases the pending secret s
Released(s) ==
    proofs_pending[s] > 0 /\ proofs_pending'[s] = 0 /\ proofs_used'[s] = 0

\* C6: pending inputs of a melt are released only after the payment has failed
\* for good; while the payment is in flight they stay pending and the quote
\* stays PENDING.
C6_ReleaseOnlyAfterFailure ==
    [][ /\ \A s \in Secrets :
              Released(s) => ln_payment.status = "failed"
        /\ (melt_quotes.state = "PENDING" /\ ln_payment.status = "inflight")
              => /\ melt_quotes'.state = "PENDING"
                 /\ proofs_pending' = proofs_pending ]_vars

\* C7: pay_invoice reports a failure only if the payment has failed for good
\* (or was never sent), and reports pending when the payment is in flight.
C7_UnknownIsPending ==
    [][ \A w \in Workers :
          payres'[w] # payres[w]
              => /\ payres'[w].ok = False => ln_payment'.status \in {"none", "failed"}
                 /\ ln_payment'.status = "inflight" => payres'[w].ok = None ]_vars

MeltLocked == {"melt_load", "melt_pending", "melt_commit", "melt_settle"}
MeltDriving == {"melt_pay", "settle_lock", "melt_settle"}

\* what C8 claims and what holds of all interleavings: one attempt at a time
\* holds the lock of the quote, pay_invoice is called only by the one attempt
\* that made the quote PENDING, once, and an attempt that does not get the lock
\* or finds the quote not UNPAID fails without calling the backend
C8_OneDriver ==
    \A w \in Workers :
        /\ pc[w] \in MeltLocked => quote_lock[MeltQuoteId] = w
        /\ pc[w] \in MeltDriving
              => melt_quotes.state = "PENDING" /\ pc[Other(w)] \notin MeltDriving
        /\ PayStep(w) => pc'[w] # "melt_pay"
        /\ (pc[w] \in {"melt_lock", "melt_load"} /\ Finishes(w))
              => /\ res'[w] \in {LockFailed, "melt quote is not unpaid.",
                                 "inputs do not match amount and fee reserve."}
                 /\ UNCHANGED <<db, backend>>

\* the request of w has found the lock of its quote taken by a request of the
\* other worker: the two are concurrent
Contended(w) == tries[w] > 0
\* the last request of o was a melt that called pay_invoice
Paid(o) ==
    /\ pc[o] = "done" /\ req[o].kind = "melt"
    /\ res[o] \in {"paid", "Lightning payment unsuccessful."}

\* C8 (as stated): one of the concurrent melts of a quote gets the lock and
\* drives the payment, so pay_invoice is called at most once per melt quote:
\* a melt that has waited for the lock does not call it after the other did.
C8_PaidAtMostOnce ==
    [][ /\ C8_OneDriver
        /\ \A w \in Workers :
              (PayStep(w) /\ Contended(w)) => ~Paid(Other(w)) ]_vars

\* C8 (amended): as stated, but pay_invoice is called at most once for every
\* time the quote is made PENDING: after a payment reported as failed has put
\* the quote back to UNPAID a later or waiting attempt calls it again.
C8_PaidOncePerAttempt == [][C8_OneDriver]_vars

\* one melt drives the payment, the other has found the quote PENDING and
\* failed
C8_Witness ==
    \E w \in Workers :
        /\ pc[w] = "settle_lock" /\ ln_payment.status = "complete"
        /\ pc[Other(w)] = "done" /\ req[Other(w)].kind = "melt"
        /\ res[Other(w)] = "melt quote is not unpaid."

\* the fee the node has paid, in the quote's unit
FeePaid == (ln_payment.fee_msat + 999) \div 1000

\* C9: when the backend reports the payment of a melt as PAID the quote becomes
\* PAID, the inputs move from pending to spent and, with enough blank outputs,
\* the signed change sums to inputs - amount - fee paid.
C9_PaidSettlement ==
    [][ /\ melt_quotes'.state = "PAID"
            => \A s \in Secrets : proofs_used'[s] = 1 /\ proofs_pending'[s] = 0
        /\ \A w \in Workers :
              (pc[w] = "melt_settle" /\ payres[w].ok = True /\ StepOf(w))
              => LET change == SumAmounts(req[w].inputs) - melt_quotes.amount - FeePaid
                 IN /\ melt_quotes'.state = "PAID"
                    /\ res'[w] = "paid"
                    /\ \A s \in SecretsOf(req[w].inputs) :
                          /\ proofs_pending[s] = 1 /\ proofs_used[s] = 0
                          /\ proofs_pending'[s] = 0 /\ proofs_used'[s] = 1
                    /\ Len(req[w].outputs) >= Len(amount_split(change))
                          => /\ SumAmounts(melt_quotes'.change) = change
                             /\ \A i \in 1..Len(melt_quotes'.change) :
                                   LET rows == promises'[melt_quotes'.change[i].B_]
                                   IN /\ Len(rows) = 1
                                      /\ rows[1].amount = melt_quotes'.change[i].amount ]_vars

\* inputs of 66, amount 64, fee reserve 2, fee paid 0: a change of 2 is signed
C9_Witness ==
    /\ melt_quotes.state = "PAID"
    /\ ln_payment = Payment("complete", 0)
    /\ melt_quotes.change = <<[id |-> "k1", B_ |-> "b3", amount |-> 2]>>
    /\ Len(promises["b3"]) = 1 /\ promises["b3"][1].amount = 2
    /\ \A s \in Secrets : proofs_used[s] = 1 /\ proofs_pending[s] = 0

\* C10: when the backend reports the payment of a melt as FAILED the quote
\* returns to UNPAID, the inputs leave the pending ledger and do not enter the
\* spent ledger, and no change is signed.
C10_FailedSettlement ==
    [][ \A w \in Workers :
          (pc[w] = "melt_settle" /\ payres[w].ok = False /\ StepOf(w))
          => /\ melt_quotes'.state = "UNPAID" /\ melt_quotes'.change = <<>>
             /\ \A s \in SecretsOf(req[w].inputs) :
                   proofs_pending[s] = 1 /\ proofs_pending'[s] = 0
             /\ proofs_pending' = ZeroRows
             /\ proofs_used' = proofs_used /\ proofs_used = ZeroRows
             /\ promises' = promises ]_vars

\* the payment has failed for good, the melt is answered, the inputs are free
C10_Witness ==
    \E w \in Workers :
        /\ pc[w] = "done" /\ req[w].kind = "melt"
        /\ res[w] = "Lightning payment unsuccessful."
        /\ ln_payment.status = "failed"
        /\ melt_quotes.state = "UNPAID"
        /\ proofs_pending = ZeroRows /\ proofs_used = ZeroRows
        /\ promises["b3"] = <<>>

\* the melt quote is PENDING with no handler driving its payment
Orphaned ==
    /\ melt_quotes.state = "PENDING"
    /\ \A w \in Workers : pc[w] \notin MeltDriving

\* C11: when the process has crashed with the melt quote PENDING and the
\* backend reports the payment as paid after the restart, the quote is
\* eventually PAID and its inputs spent; no output is ever signed twice.
C11_CrashRecovery ==
    /\ (Orphaned /\ ln_payment.status = "complete")
           ~> (melt_quotes.state = "PAID"
               /\ \A s \in Secrets : proofs_used[s] = 1 /\ proofs_pending[s] = 0)
    /\ [](\A b \in B_s : Len(promises[b]) <= 1)

\* after a crash no handler has answered, the payment was made, and the quote
\* has been driven to PAID with its inputs spent
C11_Witness ==
    /\ \A w \in Workers : pc[w] = "done" /\ res[w] = "crashed"
    /\ ln_payment.status = "complete"
    /\ melt_quotes.state = "PAID"
    /\ \A s \in Secrets : proofs_used[s] = 1 /\ proofs_pending[s] = 0

Balance(r) ==
    SumAmounts(r.inputs) - get_fees_for_proofs(r.inputs) - SumAmounts(r.outputs)

InvoiceNotPaid == "Lightning invoice not paid yet."

\* the mint request of w is turned down at the payment check: nothing is
\* signed and the quote is left as it was, not issued
TurnedDownUnpaid(w, errors) ==
    /\ (pc[w] = "mint_status" /\ Finishes(w))
          => /\ res'[w] \in errors
             /\ promises' = promises /\ tx'[w].prom = NoPromises
             /\ invoices' = invoices /\ ~invoices'.issued
    /\ (pc[w] = "mint_status" /\ StepOf(w) /\ ~ln_invoice_paid)
          => Finishes(w)

\* C15 (as stated): a mint for a quote whose invoice is not paid, or whose
\* status the backend cannot be asked for, is rejected with the
\* invoice-not-paid error, signs nothing and leaves the quote not issued.
C15_UnpaidIsNotPaidError ==
    [][ \A w \in Workers : TurnedDownUnpaid(w, {InvoiceNotPaid}) ]_vars

\* C15 (amended): as stated, but when the status request does not reach the
\* node the request is rejected with the exception of that request.
C15_UnpaidRejected ==
    [][ \A w \in Workers : TurnedDownUnpaid(w, {InvoiceNotPaid, ConnectError}) ]_vars

\* a mint was rejected as not paid, and the other one, after the payment, was
\* issued the tokens of the same quote
C15_Witness ==
    \E w \in Workers :
        /\ pc[w] = "done" /\ req[w].kind = "mint" /\ res[w] = InvoiceNotPaid
        /\ pc[Other(w)] = "done" /\ req[Other(w)].kind = "mint"
        /\ res[Other(w)] = "ok"
        /\ ln_invoice_paid /\ invoices.issued
        /\ promises[req[Other(w)].outputs[1].B_] # <<>>

\* the signatures the step adds to the issued-signature ledger, summed
RECURSIVE SumSigned(_)
SumSigned(bs) ==
    IF bs = {} THEN 0
    ELSE LET b == CHOOSE x \in bs : TRUE
         IN SumAmounts(promises'[b]) - SumAmounts(promises[b])
            + SumSigned(bs \ {b})

\* C16: what is signed against a mint quote never exceeds the quote's amount:
\* a mint adds signatures only in the one step that makes the quote issued,
\* and they sum to the quote's amount at most; a mint that asks for more is
\* rejected and leaves the quote as it was.
C16_IssuedWithinQuote ==
    [][ \A w \in Workers :
          req[w].kind = "mint"
          => /\ (StepOf(w) /\ promises' # promises)
                   => /\ ~invoices.issued /\ invoices'.issued
                      /\ SumSigned(B_s) = SumAmounts(req[w].outputs)
                      /\ SumSigned(B_s) <= invoices.amount
             /\ (StepOf(w) /\ SumAmounts(req[w].outputs) > invoices.amount)
                   => /\ promises' = promises /\ tx'[w].prom = NoPromises
                      /\ invoices' = invoices /\ tx'[w].inv = <<>>
                      /\ Finishes(w) => res'[w] # "ok" ]_vars

\* a mint of 64 against the paid quote has been rejected, the quote is not
\* issued
C16_Witness ==
    \E w \in Workers :
        /\ pc[w] = "done" /\ req[w].kind = "mint"
        /\ SumAmounts(req[w].outputs) > invoices.amount
        /\ res[w] = "requested amount too high"
        /\ ln_invoice_paid /\ ~invoices.issued
        /\ promises = NoPromises

\* the response of the restore that w is about to answer
RestoreResponse(w) == ledger_restore(promises, req[w].outputs)

\* C17: restore never signs and never writes: for each output it returns the
\* stored signature when the output's B_ is in the issued-signature ledger and
\* nothing otherwise, and the issued, spent and pending ledgers and the
\* quotes stay as they were.
C17_RestoreReadsOnly ==
    [][ \A w \in Workers :
          (pc[w] = "restore" /\ StepOf(w))
          => /\ UNCHANGED <<proofs_used, proofs_pending, promises,
                            invoices, melt_quotes>>
             /\ tx'[w] = NoTx
             /\ req[w].outputs # <<>>
                   => LET r == RestoreResponse(w)
                          signed == {i \in 1..Len(req[w].outputs) :
                                       promises[req[w].outputs[i].B_] # <<>>}
                      IN /\ res'[w] = "ok"
                         /\ Len(r.outputs) = Cardinality(signed)
                         /\ Len(r.promises) = Len(r.outputs)
                         /\ \A j \in 1..Len(r.outputs) :
                               LET rows == promises[r.outputs[j].B_]
                               IN /\ r.outputs[j] \in Range(req[w].outputs)
                                  /\ rows # <<>>
                                  /\ r.promises[j].C_ = rows[1].C_b ]_vars

\* a restore of b3 and b2 has answered while only b2 is signed: it returned
\* b2's signature and nothing for b3
C17_Witness ==
    \E w \in Workers :
        /\ pc[w] = "done" /\ req[w].kind = "restore" /\ res[w] = "ok"
        /\ promises["b2"] # <<>> /\ promises["b3"] = <<>>
        /\ RestoreResponse(w).outputs = <<BlindedMessage("b2", 2)>>
        /\ Len(RestoreResponse(w).promises) = 1

\* C18: the signature a restore returns equals the one stored when B_ was
\* first signed: the same amount, keyset id and C_, and the same DLEQ proof
\* (e, s).
C18_RestoreReturnsStored ==
    [][ \A w \in Workers :
          (pc[w] = "restore" /\ StepOf(w) /\ req[w].outputs # <<>>)
          => LET r == RestoreResponse(w)
             IN \A j \in 1..Len(r.promises) :
                   LET row == promises[r.outputs[j].B_][1]
                   IN r.promises[j]
                        = BlindedSignature(row.id, row.amount, row.C_b,
                                           <<DLEQ(row.e, row.s)>>) ]_vars

\* the handler of w is at its verification step
Verifying(w) ==
    \/ pc[w] \in {"swap_pending", "melt_pending"} /\ idx[w] > Len(req[w].inputs)
    \/ pc[w] = "mint_verify"

\* the positions of a handler up to its verification step
UpToVerification ==
    {"swap_pending", "mint_lock", "mint_check", "mint_status", "mint_verify",
     "melt_lock", "melt_load", "melt_pending"}

\* C19: when the verification of a swap, mint or melt batch fails the request
\* ends with an error and no partial state is written: the spent, pending and
\* issued ledgers and both quotes are as before the request, and the writes
\* of its transaction are dropped.
C19_FailedVerificationWritesNothing ==
    [][ \A w \in Workers :
          /\ (StepOf(w) /\ pc[w] \in UpToVerification)
                => UNCHANGED <<proofs_used, proofs_pending, promises,
                               invoices, melt_quotes>>
          /\ (StepOf(w) /\ Verifying(w))
                => \/ ~Finishes(w) /\ tx'[w] = tx[w]
                   \/ /\ Finishes(w)
                      /\ res'[w] \notin {None, "ok", "paid", "pending"}
                      /\ tx'[w] = NoTx ]_vars

\* a swap of 66 for 64 has failed its verification after its inputs were
\* marked pending in its transaction, a mint has failed its verification
\* after the quote was marked issued in its transaction; nothing is written
C19_Witness ==
    \E w \in Workers :
        /\ pc[w] = "done" /\ req[w].kind = "swap" /\ res[w] = "not balanced"
        /\ pc[Other(w)] = "done" /\ req[Other(w)].kind = "mint"
        /\ res[Other(w)] = "outputs have already been signed before."
        /\ proofs_used["s1"] = 0 /\ proofs_pending = ZeroRows
        /\ ~invoices.issued /\ melt_quotes.state = "UNPAID"

\* the batch has the unknown keyset id at some position
HasUnknownKeyset(r) ==
    \/ \E i \in 1..Len(r.inputs) : r.inputs[i].id \notin DOMAIN keysets
    \/ \E i \in 1..Len(r.outputs) : r.outputs[i].id \notin DOMAIN keysets

\* C20: a batch whose inputs or outputs carry an unknown keyset id is rejected
\* with the keyset-unknown protocol error, whatever the position of the
\* unknown id, and never with an assertion or lookup failure.
C20_UnknownKeysetTyped ==
    [][ \A w \in Workers :
          (pc[w] = "verify" /\ StepOf(w) /\ HasUnknownKeyset(req[w]))
          => res'[w] = "keyset id unknown." ]_vars

\* the units of the keysets of a list of proofs or outputs
UnitsOf(seq) == {keysets[seq[i].id].unit : i \in 1..Len(seq)}

\* C21: within one accepted batch all input keysets and all output keysets
\* have the same unit, for swaps and for melts alike: a batch that mixes
\* inputs of two units is never accepted.
C21_UnitPurity ==
    [][ \A w \in Workers :
          (pc[w] = "verify" /\ StepOf(w) /\ res'[w] = "ok")
          => Cardinality(UnitsOf(req[w].inputs) \cup UnitsOf(req[w].outputs)) = 1
      ]_vars

\* the sum of input_fee_ppk over the keysets of the proofs
RECURSIVE PpkSum(_)
PpkSum(proofs) ==
    IF proofs = <<>> THEN 0
    ELSE keysets[Head(proofs).id].input_fee_ppk + PpkSum(Tail(proofs))

KnownKeysets(proofs) == \A i \in 1..Len(proofs) : proofs[i].id \in DOMAIN keysets

C23_DuplicateSecretRejected ==
    [][ \A w \in Workers :
          (pc[w] = "verify" /\ StepOf(w)
             /\ Cardinality(SecretsOf(req[w].inputs)) < Len(req[w].inputs))
          => /\ Finishes(w) /\ res'[w] \notin {None, "ok", "paid", "pending"}
             /\ (KnownKeysets(req[w].inputs)
                   /\ \A i \in 1..Len(req[w].inputs) :
                         _verify_amount(req[w].inputs[i].amount))
                  => res'[w] = "duplicate proofs." ]_vars

\* a swap whose two inputs have secret s2 and the amounts 2 and 64 has been
\* rejected as duplicate
C23_Witness ==
    \E w \in Workers :
        /\ pc[w] = "done" /\ res[w] = "duplicate proofs."
        /\ req[w].inputs = <<p2, Proof("s2", 64)>>

\* the batch carries outputs to be signed (a melt may carry none)
CarriesOutputs(r) == r.kind \in {"swap", "mint"} \/ r.outputs # <<>>

\* C24: outputs are accepted for signing only if there is at least one, all
\* carry the same keyset id, that keyset is known and active and every B_ is
\* unique in the batch; no output of an inactive keyset is accepted, while
\* inputs of an inactive keyset are: "keyset id inactive." is raised for the
\* keyset of the outputs only.
C24_OutputsOfOneActiveKeyset ==
    [][ \A w \in Workers :
          (pc[w] = "verify" /\ StepOf(w))
          => LET outs == req[w].outputs
             IN /\ (res'[w] = "ok" /\ CarriesOutputs(req[w]))
                      => /\ outs # <<>>
                         /\ \A i \in 1..Len(outs) : outs[i].id = outs[1].id
                         /\ outs[1].id \in DOMAIN keysets
                         /\ keysets[outs[1].id].active
                         /\ Cardinality({outs[i].B_ : i \in 1..Len(outs)})
                               = Len(outs)
                /\ res'[w] = "keyset id inactive."
                      => /\ outs # <<>>
                         /\ ~keysets[outs[1].id].active
                /\ req[w] = Request("swap", None, <<WithId(p2, "k3")>>,
                                    <<BlindedMessage("b1", 2)>>)
                      => res'[w] = "ok" ]_vars

\* a swap with an output of the inactive keyset k3 has been rejected, a swap
\* of an input of k3 for an output of k1 has been accepted
C24_Witness ==
    \E w \in Workers :
        /\ pc[w] = "done" /\ res[w] = "keyset id inactive."
        /\ req[w].kind = "swap" /\ req[w].outputs[1].id = "k3"
        /\ pc[Other(w)] = "done" /\ res[Other(w)] = "ok"
        /\ req[Other(w)].inputs = <<WithId(p2, "k3")>>

\* the listener task takes its dispatch step
Dispatches == listener.pc = "dispatch" /\ listener'.pc # "dispatch"

\* C25: when the paid-invoice stream emits the checking_id of an UNPAID mint
\* quote the quote moves from UNPAID to PAID in that step and a mint-quote
\* event of it is emitted; a checking_id of no quote changes nothing and
\* emits nothing.
C25_PaidInvoiceMovesQuote ==
    [][ Dispatches
        => IF listener.checking_id = MintQuoteId
           THEN ~invoices.paid
                  => /\ invoices'.paid
                     /\ Len(events'.submitted) = Len(events.submitted) + 1
                     /\ events'.submitted[Len(events'.submitted)].identifier
                           = MintQuoteId
           ELSE UNCHANGED <<proofs_used, proofs_pending, promises, invoices,
                            melt_quotes, events>> ]_vars

\* C26: paid_invoices_stream never ends, whatever the backend does at start-up
\* or later, and an invoice paid while the stream runs is yielded in the end,
\* also after failures.
C26_StreamNeverEnds ==
    /\ [](listener.pc # "ended")
    /\ \A k \in 1..2 :
          (listener.pc # "start" /\ Len(ln_paid) >= k
              /\ listener.last_pay_index < k)
             ~> (listener.last_pay_index >= k)

\* the step is a call of add_client
AddsClient ==
    /\ events'.call = "add_client"
    /\ <<events'.clients, events'.call, events'.ret>>
          # <<events.clients, events.call, events.ret>>

\* C27: the number of registered subscribers never exceeds MAX_CLIENTS; an
\* add_client with MAX_CLIENTS subscribers registered returns False and
\* leaves the list of subscribers unchanged.
C27_ClientsBounded ==
    /\ [](Len(events.clients) <= MAX_CLIENTS)
    /\ [][ AddsClient
           => IF Len(events.clients) >= MAX_CLIENTS
              THEN /\ events'.ret = False
                   /\ events'.clients = events.clients
              ELSE /\ events'.ret = True
                   /\ Len(events'.clients) = Len(events.clients) + 1 ]_vars

\* MAX_CLIENTS subscribers are registered and the last call, an add_client,
\* returned False
C27_Witness ==
    /\ Len(events.clients) = MAX_CLIENTS
    /\ events.call = "add_client" /\ events.ret = False

\* C28: the dispatch of an event does not block the engine: a submit that
\* has begun completes and the task that emitted the event goes on, also
\* when a subscriber is slow or never finishes receiving.
C28_SubmitCompletes ==
    (listener.pc = "submit") ~> (listener.pc # "submit" /\ events.submit = <<>>)

LockPositions == {"mint_lock", "melt_lock", "settle_lock"}

CeilLog2(n) == CHOOSE k \in 0..n : 2^k >= n /\ \A j \in 0..(k - 1) : 2^j < n

\* C30: the number of blank outputs is 0 for a fee reserve of 0, at least 1
\* from 1 on, ceil(log2(F)) above 1 (10 for 1000), the call fails for a
\* negative fee reserve, and the blank outputs suffice to sign every change
\* from 1 to F as its binary split.
C30_BlankOutputsSuffice ==
    \A w \in Workers :
        (req[w].kind = "blank" /\ pc[w] \in {"blank_sign", "done"})
        => LET F == req[w].fee_reserve_sat
               c == req[w].change
               n == Len(req[w].outputs)
           IN /\ F < 0 <=> res[w] = AssertionError
              /\ F = 0 => n = 0
              /\ F >= 1 => n >= 1
              /\ F > 1 => n = CeilLog2(F)
              /\ F = NUT08FeeReserve => n = 10
              /\ (F >= 1 /\ pc[w] = "done")
                    => /\ Len(req[w].signed) <= n
                       /\ SumAmounts(req[w].signed) = c
                       /\ [i \in 1..Len(req[w].signed) |-> req[w].signed[i].amount]
                              = amount_split(c)

\* a fee reserve of 8: three blank outputs, all of them signed for a change
\* of 7
C30_Witness ==
    \E w \in Workers :
        /\ req[w].kind = "blank" /\ pc[w] = "done"
        /\ req[w].fee_reserve_sat = 8 /\ req[w].change = 7
        /\ Len(req[w].outputs) = 3 /\ Len(req[w].signed) = 3

\* the step ends a swap of w with success
SwapSucceeds(w) ==
    pc[w] = "swap_store" /\ pc'[w] = "done" /\ res'[w] = "ok"

\* the signatures of the response: for every output, in the order of the
\* outputs, the rows stored under its B_
SwapPromises(w) == [i \in 1..Len(req[w].outputs) |-> promises'[req[w].outputs[i].B_]]

\* C31: a successful swap returns exactly one signature per output, in the
\* order of the outputs and with the same amounts, and afterwards every input
\* of the swap is spent (and no longer pending).
C31_SwapSignsOutputsSpendsInputs ==
    [][ \A w \in Workers :
          SwapSucceeds(w)
          => /\ Len(SwapPromises(w)) = Len(req[w].outputs)
             /\ \A i \in 1..Len(req[w].outputs) :
                   /\ Len(SwapPromises(w)[i]) = 1
                   /\ SwapPromises(w)[i][1].amount = req[w].outputs[i].amount
                   /\ SwapPromises(w)[i][1].id = req[w].outputs[i].id
                   /\ SwapPromises(w)[i][1].C_b
                         = step2_bob(PublicKey(req[w].outputs[i].B_),
                                     private_key(req[w].outputs[i].id,
                                                 req[w].outputs[i].amount))
             /\ \A i \in 1..Len(req[w].inputs) :
                   /\ proofs_used'[req[w].inputs[i].secret] = 1
                   /\ proofs_pending'[req[w].inputs[i].secret] = 0 ]_vars

\* a swap of two inputs for two outputs has succeeded
C31_Witness ==
    \E w \in Workers :
        /\ pc[w] = "done" /\ res[w] = "ok" /\ req[w].kind = "swap"
        /\ Len(req[w].inputs) = 2 /\ Len(req[w].outputs) = 2
        /\ \A i \in 1..2 : proofs_used[req[w].inputs[i].secret] = 1
        /\ \A i \in 1..2 : Len(promises[req[w].outputs[i].B_]) = 1

\* the state the response reports for its i-th proof
ReportedState(r, i) ==
    IF ~r.spendable[i] THEN "SPENT"
    ELSE IF r.pending[i] THEN "PENDING" ELSE "UNSPENT"

\* the state of a secret in the ledgers
LedgerState(s) ==
    IF proofs_used[s] > 0 THEN "SPENT"
    ELSE IF proofs_pending[s] > 0 THEN "PENDING" ELSE "UNSPENT"

C34_BDHKERoundTrip ==
    \A w \in Workers :
        (req[w].kind = "bdhke" /\ pc[w] = "done" /\ res[w] = "ok")
        => /\ req[w].B_ = step1_alice(req[w].secret_msg, req[w].r)
           /\ req[w].C = mult(hash_to_curve(encode(req[w].secret_msg)), req[w].a)
           /\ b_dhke_verify(req[w].a, req[w].C, req[w].secret_msg)
           /\ req[w].verified_by = {req[w].a}

\* the round trip of a secret whose first hash is no point, signed with a key
\* other than 1
C34_Witness ==
    \E w \in Workers :
        /\ req[w].kind = "bdhke" /\ pc[w] = "done" /\ res[w] = "ok"
        /\ req[w].secret_msg = "s1" /\ req[w].a = 3 /\ req[w].r = 2
        /\ req[w].C # req[w].C_
        /\ req[w].verified_by = {3}

\* the merkle request of w is answered
MerkleDone(w) == req[w].kind = "merkle" /\ pc[w] = "done"

\* the pair hash does not depend on the order of its arguments
MerkleHashSymmetric ==
    \A w \in Workers :
        MerkleDone(w)
        => \A b \in req[w].accepted \cup {req[w].branch} :
              \A k \in 1..Len(b) :
                 sorted_merkle_hash(req[w].leafs[req[w].index], b[k])
                    = sorted_merkle_hash(b[k], req[w].leafs[req[w].index])

\* C35 (as stated): a leaf verifies with the root and the branch that
\* merkle_root returns for it, for every number of leaves and every index, and
\* with no branch computed for a different list of leaves; the pair hash is
\* independent of the order of its arguments.
C35_OtherLeafSetsRejected ==
    /\ MerkleHashSymmetric
    /\ \A w \in Workers :
          MerkleDone(w)
          => /\ res[w] = "ok"
             /\ req[w].branch \in req[w].accepted
             /\ \A l \in LeafLists \ {req[w].leafs} :
                   \A j \in 1..Len(l) :
                      merkle_root(l, j).branch \notin req[w].accepted

\* C35 (amended): a leaf verifies with the root and the branch that
\* merkle_root returns for it, for every number of leaves and every index, and
\* with no other branch than the branches of the places the leaf has in the
\* list; the pair hash is independent of the order of its arguments.
C35_AuthenticBranchVerifies ==
    /\ MerkleHashSymmetric
    /\ \A w \in Workers :
          MerkleDone(w)
          => /\ res[w] = "ok"
             /\ merkle_verify(req[w].root, req[w].leafs[req[w].index], req[w].branch)
             /\ req[w].accepted =
                   {merkle_root(req[w].leafs, k).branch :
                      k \in {k \in 1..Len(req[w].leafs) :
                               req[w].leafs[k] = req[w].leafs[req[w].index]}}

\* the third of three leaves, carried up one level, verifies with its branch
\* of one hash, and other branches do not
C35_Witness ==
    \E w \in Workers :
        /\ MerkleDone(w) /\ res[w] = "ok"
        /\ Len(req[w].leafs) = 3 /\ req[w].index = 3
        /\ Len(req[w].branch) = 1
        /\ req[w].accepted = {req[w].branch}

\* the step ends a submission: submit returns
SubmissionEnds ==
    /\ events'.submit = <<>>
    /\ events.submit # <<>> \/ Len(events'.submitted) > Len(events.submitted)

\* how often x stands in seq
Count(seq, x) == Cardinality({i \in 1..Len(seq) : seq[i] = x})

\* C36: when submit returns, the event has been delivered once to every
\* subscription for its kind and identifier of a client that was registered
\* during the whole submission, whatever other clients were added or
\* removed meanwhile, and to no client without such a subscription.
C36_DeliveredToEverySubscriber ==
    [][ SubmissionEnds
        => LET event == events'.submitted[Len(events'.submitted)]
           IN /\ \A c \in events'.since_submit :
                     subscriptions(c, event) # <<>> => Count(events'.sent, c) = 1
              /\ \A i \in 1..Len(events'.sent) :
                     subscriptions(events'.sent[i], event) # <<>> ]_vars

\* C37: whatever the disconnects and reconnects, the payment hashes the stream
\* has yielded are, in their order, the invoices paid after the stream began
\* up to the last pay index it has seen: none is skipped, none repeated, and
\* only paid invoices are yielded.
C37_StreamYieldsEachOnce ==
    listener.pc \notin {"start", "ended"}
    => /\ listener.first_pay_index <= listener.last_pay_index
       /\ listener.last_pay_index <= Len(ln_paid)
       /\ listener.yielded
             = SubSeq(ln_paid, listener.first_pay_index + 1, listener.last_pay_index)
       /\ \A i, j \in 1..Len(listener.yielded) :
             listener.yielded[i] = listener.yielded[j] => i = j

\* the stream has lost its connection after its first yield, and a second
\* invoice has been paid meanwhile
C37_Witness ==
    /\ listener.pc = "backoff"
    /\ Len(listener.yielded) = 1
    /\ Len(ln_paid) = listener.first_pay_index + 2


\* what pay_invoice reports as the fee of the node's completed payment
PayInvoiceFee == IF ln_payment.fee_msat # 0 THEN <<ln_payment.fee_msat>> ELSE <<>>

\* C38: for a completed payment get_payment_status reports the fee pay_invoice
\* reported for it, amount_sent_msat - amount_msat, and never a negative fee.
C38_StatusFeeEqualsPayFee ==
    [][\A w \in Workers :
          (cln_get_payment_status(w) /\ payres'[w].ok = True)
          => /\ payres'[w].fee_msat = PayInvoiceFee
             /\ payres'[w].fee_msat # <<>> => payres'[w].fee_msat[1] >= 0]_vars


\* C39: a call of a cached route ends in one of three ways: it returns the
\* response stored for its key without calling the handler, or it has called
\* the handler once and returns and stores its result, or the handler has
\* raised and nothing is stored; it never fails because of the cache, also
\* when the entry expires between exists and get.
C39_CachedCallOutcomes ==
    [][\A w \in Workers :
          (Finishes(w) /\ req[w].kind = "cached")
          => LET key == req[w].key
             IN \/ /\ pc[w] = "cache_get"
                   /\ req'[w].calls = 0
                   /\ redis[key] # <<>>
                   /\ res'[w] = json_loads(redis[key][1])
                   /\ redis' = redis
                \/ /\ pc[w] = "cache_setex"
                   /\ req'[w].calls = 1
                   /\ res'[w] = req[w].result
                   /\ redis' = [redis EXCEPT ![key] = <<json_dumps(res'[w])>>]
                \/ /\ pc[w] = "cache_func"
                   /\ req'[w].calls = 1
                   /\ res'[w] = "handler error"
                   /\ redis' = redis]_vars


\* C40: in every state a mint quote that is marked issued is one whose payment
\* was confirmed: the committed invoice, the invoice as the transaction of a
\* mint request has written it, and the quotes copied by the migration are
\* never issued while unpaid.
C40_IssuedOnlyWhenPaid ==
    /\ invoices.issued => ln_invoice_paid
    /\ \A w \in Workers : tx[w].inv = <<TRUE>> => ln_invoice_paid
    /\ \A i \in 1..Len(mint_quotes) : mint_quotes[i].issued => mint_quotes[i].paid

====
